---------------------------- MODULE Spec2Model ----------------------------
(***************************************************************************)
(* A model of the Producer Playlist Hub: the producer workspace (library,  *)
(* active playlist, saved playlists, profile), the ShareModal that encodes *)
(* a playlist into a URL fragment, and the App mount effect that decodes   *)
(* it again (expiry check, password gate, viewer mode), with the browser's *)
(* local storage in between.                                               *)
(*                                                                         *)
(* JavaScript values are tagged records, so that values of different types *)
(* can be compared: undefined, null, numbers, strings, booleans, arrays    *)
(* and objects.  A string is a sequence of Unicode code points.            *)
(***************************************************************************)
EXTENDS Integers, Sequences, FiniteSets, TLC

(***************************************************************************)
(* Characters.                                                             *)
(***************************************************************************)
AsciiChars ==
  << " ", "!", "\"", "#", "$", "%", "&", "'", "(", ")", "*", "+", ",", "-", ".", "/",
     "0", "1", "2", "3", "4", "5", "6", "7", "8", "9", ":", ";", "<", "=", ">", "?",
     "@", "A", "B", "C", "D", "E", "F", "G", "H", "I", "J", "K", "L", "M", "N", "O",
     "P", "Q", "R", "S", "T", "U", "V", "W", "X", "Y", "Z", "[", "\\", "]", "^", "_",
     "grave", "a", "b", "c", "d", "e", "f", "g", "h", "i", "j", "k", "l", "m", "n", "o",
     "p", "q", "r", "s", "t", "u", "v", "w", "x", "y", "z", "{", "|", "}", "~" >>

\* The code point of a printable ASCII character, and of a literal (the grave
\* accent, 96, is spelled out: it is not written in a TLA+ string).
CodeTable ==
  [c \in {AsciiChars[i] : i \in 1..Len(AsciiChars)} |->
     31 + CHOOSE i \in 1..Len(AsciiChars) : AsciiChars[i] = c]
CodeOf(c) == CodeTable[c]
Lit(cs) == [i \in 1..Len(cs) |-> CodeOf(cs[i])]

DQ == CodeOf("\"")
BS == CodeOf("\\")
PERCENT == CodeOf("%")
LF == CodeOf(" ") - 22

Indices(t) == [i \in 1..Len(t) |-> i]
StartsWith(t, i, lit) ==
  /\ i + Len(lit) - 1 <= Len(t)
  /\ \A j \in 1..Len(lit) : t[i + j - 1] = lit[j]

(***************************************************************************)
(* JavaScript values.                                                      *)
(***************************************************************************)
Undefined == [undef |-> TRUE]
Null == [null |-> TRUE]
Infinity == [inf |-> TRUE]
Str(cs) == [s |-> cs]
Bool(b) == [b |-> b]
Arr(xs) == [a |-> xs]
Obj(ps) == [o |-> ps]
Prop(key, val) == [k |-> key, v |-> val]

IsUndef(v) == DOMAIN v = {"undef"}
IsNull(v) == DOMAIN v = {"null"}
IsInf(v) == DOMAIN v = {"inf"}
IsStr(v) == DOMAIN v = {"s"}
IsBool(v) == DOMAIN v = {"b"}
IsArr(v) == DOMAIN v = {"a"}
IsObj(v) == DOMAIN v = {"o"}
IsNum(v) == DOMAIN v = {"hi", "lo"}

\* A finite non-negative integer is kept in two limbs, hi * 10^6 + lo, as the
\* millisecond timestamps of Date.now() do not fit 32 bits.
Base == 1000 * 1000
Num(h, l) == [hi |-> h, lo |-> l]
NumOfInt(k) == Num(k \div Base, k % Base)
NumAdd(x, y) ==
  LET l == x.lo + y.lo IN Num(x.hi + y.hi + (l \div Base), l % Base)
NumMul(x, k) ==
  LET l == x.lo * k IN Num(x.hi * k + (l \div Base), l % Base)
NumGT(x, y) == x.hi > y.hi \/ (x.hi = y.hi /\ x.lo > y.lo)

\* ToBoolean.
Truthy(v) ==
  CASE IsUndef(v) -> FALSE
    [] IsNull(v) -> FALSE
    [] IsStr(v) -> v.s # <<>>
    [] IsNum(v) -> v # Num(0, 0)
    [] IsBool(v) -> v.b
    [] OTHER -> TRUE

\* x >= y, which Greater is not.
GreaterOrEqual(x, y) ==
  CASE IsNum(x) /\ IsNum(y) -> ~NumGT(y, x)
    [] IsInf(x) /\ IsNum(y) -> TRUE
    [] OTHER -> FALSE
\* x > y on numbers; a comparison with undefined (NaN) is false.
Greater(x, y) ==
  CASE IsNum(x) /\ IsNum(y) -> NumGT(x, y)
    [] IsInf(x) /\ IsNum(y) -> TRUE
    [] OTHER -> FALSE

\* Number::toString of a non-negative integer below 10^21.
RECURSIVE IntDigits(_)
IntDigits(k) ==
  IF k < 10 THEN <<CodeOf("0") + k>>
  ELSE IntDigits(k \div 10) \o <<CodeOf("0") + (k % 10)>>
PadDigits(k, w) == [i \in 1..w |-> CodeOf("0") + ((k \div (10 ^ (w - i))) % 10)]
NumDigits(n) ==
  IF n.hi = 0 THEN IntDigits(n.lo) ELSE IntDigits(n.hi) \o PadDigits(n.lo, 6)

\* obj.key of a parsed object (the last of several equal keys wins); a
\* property read on undefined or null is a TypeError and not modelled here.
Get(obj, key) ==
  IF ~IsObj(obj) THEN Undefined
  ELSE LET Last(hits) == IF hits = <<>> THEN Undefined ELSE hits[Len(hits)].v
       IN Last(SelectSeq(obj.o, LAMBDA p : p.k = key))

(***************************************************************************)
(* JSON.stringify.                                                         *)
(***************************************************************************)
EscapeChar(c) ==
  IF c = DQ THEN <<BS, DQ>>
  ELSE IF c = BS THEN <<BS, BS>>
  ELSE IF c = LF THEN <<BS, CodeOf("n")>>
  ELSE <<c>>

RECURSIVE QuoteBody(_)
QuoteBody(s) ==
  IF Len(s) = 0 THEN <<>>
  ELSE IF Len(s) = 1 THEN EscapeChar(s[1])
  ELSE LET h == Len(s) \div 2
       IN QuoteBody(SubSeq(s, 1, h)) \o QuoteBody(SubSeq(s, h + 1, Len(s)))

QuoteJSONString(s) ==
  <<DQ>> \o (IF \A i \in 1..Len(s) : s[i] \notin {DQ, BS, LF} THEN s
             ELSE QuoteBody(s)) \o <<DQ>>

\* A property whose value is undefined is left out of an object and is null in
\* an array; a non-finite number is null.
RECURSIVE JSONStringify(_)
RECURSIVE StringifyElems(_, _)
RECURSIVE StringifyProps(_, _)
JSONStringify(v) ==
  CASE IsStr(v) -> QuoteJSONString(v.s)
    [] IsNum(v) -> NumDigits(v)
    [] IsInf(v) -> Lit(<<"n", "u", "l", "l">>)
    [] IsNull(v) -> Lit(<<"n", "u", "l", "l">>)
    [] IsBool(v) -> IF v.b THEN Lit(<<"t", "r", "u", "e">>)
                    ELSE Lit(<<"f", "a", "l", "s", "e">>)
    [] IsArr(v) -> <<CodeOf("[")>> \o StringifyElems(v.a, 1) \o <<CodeOf("]")>>
    [] IsObj(v) ->
         <<CodeOf("{")>>
           \o StringifyProps(SelectSeq(v.o, LAMBDA p : ~IsUndef(p.v)), 1)
           \o <<CodeOf("}")>>
    [] DOMAIN v = {"file"} -> <<CodeOf("{"), CodeOf("}")>>
    [] OTHER -> <<>>
StringifyElems(xs, i) ==
  IF i > Len(xs) THEN <<>>
  ELSE (IF i > 1 THEN <<CodeOf(",")>> ELSE <<>>)
         \o (IF IsUndef(xs[i]) THEN Lit(<<"n", "u", "l", "l">>)
             ELSE JSONStringify(xs[i]))
         \o StringifyElems(xs, i + 1)
StringifyProps(ps, i) ==
  IF i > Len(ps) THEN <<>>
  ELSE (IF i > 1 THEN <<CodeOf(",")>> ELSE <<>>)
         \o QuoteJSONString(ps[i].k) \o <<CodeOf(":")>> \o JSONStringify(ps[i].v)
         \o StringifyProps(ps, i + 1)

(***************************************************************************)
(* JSON.parse: [ok |-> TRUE, v |-> value] or [ok |-> FALSE] (SyntaxError). *)
(* The positions of the unescaped quotes are found first, so that a long   *)
(* string literal is taken in one step.                                    *)
(***************************************************************************)
Fail == [ok |-> FALSE]
IsWS(c) == c \in {CodeOf(" "), LF, LF - 1, LF + 3}
IsDigit(c) == c >= CodeOf("0") /\ c <= CodeOf("9")

RECURSIVE SkipWS(_, _)
SkipWS(t, i) == IF i <= Len(t) /\ IsWS(t[i]) THEN SkipWS(t, i + 1) ELSE i

\* The number of consecutive backslashes that end at position j.
RECURSIVE BackslashRun(_, _)
BackslashRun(t, j) ==
  IF j >= 1 /\ t[j] = BS THEN 1 + BackslashRun(t, j - 1) ELSE 0

UnescapedQuotes(t) ==
  SelectSeq(Indices(t), LAMBDA j : t[j] = DQ /\ BackslashRun(t, j - 1) % 2 = 0)

\* The characters of a string literal's body, escapes resolved.
UnescapeBody(body) ==
  IF \A p \in 1..Len(body) : body[p] # BS /\ body[p] >= CodeOf(" ")
  THEN [ok |-> TRUE, s |-> body]
  ELSE
    LET Intro(p) == body[p] = BS /\ BackslashRun(body, p - 1) % 2 = 0
        Escaped(p) == p > 1 /\ Intro(p - 1)
        valid ==
          \A p \in 1..Len(body) :
            /\ body[p] >= CodeOf(" ")
            /\ Intro(p) =>
                 /\ p < Len(body)
                 /\ body[p + 1] \in {DQ, BS, CodeOf("/"), CodeOf("n")}
        Kept(keep) ==
          [q \in 1..Len(keep) |->
             IF Escaped(keep[q]) /\ body[keep[q]] = CodeOf("n") THEN LF
             ELSE body[keep[q]]]
    IN IF ~valid THEN Fail
       ELSE [ok |-> TRUE,
             s |-> Kept(SelectSeq(Indices(body), LAMBDA p : ~Intro(p)))]

ParseString(t, qs, i, k) ==
  IF ~(k + 1 <= Len(qs) /\ qs[k] = i) THEN Fail
  ELSE LET Literal(u) ==
             IF ~u.ok THEN Fail
             ELSE [ok |-> TRUE, v |-> Str(u.s), i |-> qs[k + 1] + 1, k |-> k + 2]
       IN Literal(UnescapeBody(SubSeq(t, i + 1, qs[k + 1] - 1)))

RECURSIVE DigitsEnd(_, _)
DigitsEnd(t, i) == IF i <= Len(t) /\ IsDigit(t[i]) THEN DigitsEnd(t, i + 1) ELSE i

RECURSIVE DigitsValue(_, _, _)
DigitsValue(t, i, j) ==
  IF i > j THEN 0 ELSE DigitsValue(t, i, j - 1) * 10 + (t[j] - CodeOf("0"))

\* A non-negative integer literal (the only numbers JSON.stringify writes here).
ParseNumber(t, i, k) ==
  LET Digits(e, n) ==
        IF \/ n > 1 /\ t[i] = CodeOf("0")
           \/ n > 15
           \/ e <= Len(t) /\ t[e] \in {CodeOf("."), CodeOf("e"), CodeOf("E")}
        THEN Fail
        ELSE [ok |-> TRUE,
              v |-> IF n <= 6 THEN Num(0, DigitsValue(t, i, e - 1))
                    ELSE Num(DigitsValue(t, i, e - 7), DigitsValue(t, e - 6, e - 1)),
              i |-> e, k |-> k]
      Upto(e) == Digits(e, e - i)
  IN Upto(DigitsEnd(t, i))

RECURSIVE ParseValue(_, _, _, _)
RECURSIVE ParseElements(_, _, _, _, _)
RECURSIVE ParseMembers(_, _, _, _, _)
ParseValue(t, qs, i0, k) ==
  LET Opened(j, close, empty, rest) ==
        IF j <= Len(t) /\ t[j] = close
        THEN [ok |-> TRUE, v |-> empty, i |-> j + 1, k |-> k]
        ELSE IF rest = "elements" THEN ParseElements(t, qs, j, k, <<>>)
        ELSE ParseMembers(t, qs, j, k, <<>>)
      At(i) ==
        IF i > Len(t) THEN Fail
        ELSE
          CASE t[i] = DQ -> ParseString(t, qs, i, k)
            [] IsDigit(t[i]) -> ParseNumber(t, i, k)
            [] t[i] = CodeOf("[") ->
                 Opened(SkipWS(t, i + 1), CodeOf("]"), Arr(<<>>), "elements")
            [] t[i] = CodeOf("{") ->
                 Opened(SkipWS(t, i + 1), CodeOf("}"), Obj(<<>>), "members")
            [] StartsWith(t, i, Lit(<<"n", "u", "l", "l">>)) ->
                 [ok |-> TRUE, v |-> Null, i |-> i + 4, k |-> k]
            [] StartsWith(t, i, Lit(<<"t", "r", "u", "e">>)) ->
                 [ok |-> TRUE, v |-> Bool(TRUE), i |-> i + 4, k |-> k]
            [] StartsWith(t, i, Lit(<<"f", "a", "l", "s", "e">>)) ->
                 [ok |-> TRUE, v |-> Bool(FALSE), i |-> i + 5, k |-> k]
            [] OTHER -> Fail
  IN At(SkipWS(t, i0))
ParseElements(t, qs, i, k, acc) ==
  LET Next1(r, j, xs) ==
        IF j > Len(t) THEN Fail
        ELSE IF t[j] = CodeOf("]")
        THEN [ok |-> TRUE, v |-> Arr(xs), i |-> j + 1, k |-> r.k]
        ELSE IF t[j] = CodeOf(",") THEN ParseElements(t, qs, j + 1, r.k, xs)
        ELSE Fail
      Element(r) ==
        IF ~r.ok THEN Fail ELSE Next1(r, SkipWS(t, r.i), Append(acc, r.v))
  IN Element(ParseValue(t, qs, i, k))
ParseMembers(t, qs, i0, k, acc) ==
  LET Next1(r, j, ps) ==
        IF j > Len(t) THEN Fail
        ELSE IF t[j] = CodeOf("}")
        THEN [ok |-> TRUE, v |-> Obj(ps), i |-> j + 1, k |-> r.k]
        ELSE IF t[j] = CodeOf(",") THEN ParseMembers(t, qs, j + 1, r.k, ps)
        ELSE Fail
      Member(key, r) ==
        IF ~r.ok THEN Fail
        ELSE Next1(r, SkipWS(t, r.i), Append(acc, Prop(key.v.s, r.v)))
      Colon(key, c) ==
        IF ~(c <= Len(t) /\ t[c] = CodeOf(":")) THEN Fail
        ELSE Member(key, ParseValue(t, qs, c + 1, key.k))
      Key(key) == IF ~key.ok THEN Fail ELSE Colon(key, SkipWS(t, key.i))
      At(i) ==
        IF ~(i <= Len(t) /\ t[i] = DQ) THEN Fail
        ELSE Key(ParseString(t, qs, i, k))
  IN At(SkipWS(t, i0))

JSONParse(t) ==
  LET Whole(r) ==
        IF r.ok /\ SkipWS(t, r.i) = Len(t) + 1 THEN [ok |-> TRUE, v |-> r.v]
        ELSE Fail
  IN Whole(ParseValue(t, UnescapedQuotes(t), 1, 1))

(***************************************************************************)
(* encodeURIComponent, unescape, btoa and their inverses atob, escape,     *)
(* decodeURIComponent.  A "binary string" is a sequence of codes 0..255.   *)
(***************************************************************************)
IsAlnum(c) ==
  \/ c >= CodeOf("0") /\ c <= CodeOf("9")
  \/ c >= CodeOf("A") /\ c <= CodeOf("Z")
  \/ c >= CodeOf("a") /\ c <= CodeOf("z")
UriUnreserved(c) ==
  IsAlnum(c) \/ c \in {CodeOf("-"), CodeOf("_"), CodeOf("."), CodeOf("!"), CodeOf("~"),
                       CodeOf("*"), CodeOf("'"), CodeOf("("), CodeOf(")")}
EscapeUnreserved(c) ==
  IsAlnum(c) \/ c \in {CodeOf("@"), CodeOf("*"), CodeOf("_"), CodeOf("+"), CodeOf("-"),
                       CodeOf("."), CodeOf("/")}

HexDigit(v) == IF v < 10 THEN CodeOf("0") + v ELSE CodeOf("A") + (v - 10)
IsHex(c) ==
  \/ c >= CodeOf("0") /\ c <= CodeOf("9")
  \/ c >= CodeOf("A") /\ c <= CodeOf("F")
  \/ c >= CodeOf("a") /\ c <= CodeOf("f")
HexVal(c) ==
  IF c <= CodeOf("9") THEN c - CodeOf("0")
  ELSE IF c <= CodeOf("F") THEN c - CodeOf("A") + 10
  ELSE c - CodeOf("a") + 10
PercentByte(b) == <<PERCENT, HexDigit(b \div 16), HexDigit(b % 16)>>

\* The UTF-8 bytes of a code point.
UTF8(c) ==
  IF c < 128 THEN <<c>>
  ELSE IF c < 2048 THEN <<192 + (c \div 64), 128 + (c % 64)>>
  ELSE IF c < 65536
  THEN <<224 + (c \div 4096), 128 + ((c \div 64) % 64), 128 + (c % 64)>>
  ELSE <<240 + (c \div 262144), 128 + ((c \div 4096) % 64),
         128 + ((c \div 64) % 64), 128 + (c % 64)>>

EncodeChar(c) ==
  IF UriUnreserved(c) THEN <<c>>
  ELSE LET u == UTF8(c)
           pb == [i \in 1..Len(u) |-> PercentByte(u[i])]
       IN [i \in 1..(3 * Len(u)) |-> pb[((i - 1) \div 3) + 1][((i - 1) % 3) + 1]]

RECURSIVE encodeURIComponent(_)
encodeURIComponent(s) ==
  IF Len(s) = 0 THEN <<>>
  ELSE IF Len(s) = 1 THEN EncodeChar(s[1])
  ELSE LET h == Len(s) \div 2
       IN encodeURIComponent(SubSeq(s, 1, h))
            \o encodeURIComponent(SubSeq(s, h + 1, Len(s)))

\* unescape: %XX and %uXXXX become the character with that code; any other
\* character, a lone % included, stays.
unescape(t) ==
  LET Hex(p) == p >= 1 /\ p <= Len(t) /\ IsHex(t[p])
      Start2(p) == p >= 1 /\ t[p] = PERCENT /\ Hex(p + 1) /\ Hex(p + 2)
      StartU(p) ==
        /\ p >= 1 /\ t[p] = PERCENT
        /\ p + 5 <= Len(t) /\ t[p + 1] = CodeOf("u")
        /\ \A j \in 2..5 : Hex(p + j)
      Consumed(p) ==
        \/ \E d \in 1..2 : Start2(p - d)
        \/ \E d \in 1..5 : StartU(p - d)
      Char(p) ==
        IF Start2(p) THEN HexVal(t[p + 1]) * 16 + HexVal(t[p + 2])
        ELSE IF StartU(p)
        THEN HexVal(t[p + 2]) * 4096 + HexVal(t[p + 3]) * 256
               + HexVal(t[p + 4]) * 16 + HexVal(t[p + 5])
        ELSE t[p]
      Kept(keep) == [q \in 1..Len(keep) |-> Char(keep[q])]
  IN Kept(SelectSeq(Indices(t), LAMBDA p : ~Consumed(p)))

EscapeChar1(c) ==
  IF EscapeUnreserved(c) THEN <<c>>
  ELSE IF c < 256 THEN PercentByte(c)
  ELSE <<PERCENT, CodeOf("u"), HexDigit(c \div 4096), HexDigit((c \div 256) % 16),
         HexDigit((c \div 16) % 16), HexDigit(c % 16)>>

RECURSIVE escape(_)
escape(s) ==
  IF Len(s) = 0 THEN <<>>
  ELSE IF Len(s) = 1 THEN EscapeChar1(s[1])
  ELSE LET h == Len(s) \div 2
       IN escape(SubSeq(s, 1, h)) \o escape(SubSeq(s, h + 1, Len(s)))

\* decodeURIComponent: [ok |-> TRUE, s |-> string], or [ok |-> FALSE] for the
\* URIError of a % without two hex digits or of bytes that are not UTF-8.
\* The bytes of the text, a %XX taken as one byte (isByte), are decoded as UTF-8.
DecodeBytes(bytes, isByte) ==
  LET m == Len(bytes)
      Val(q) == bytes[q]
      Cont(q) == q >= 1 /\ q <= m /\ isByte[q] /\ Val(q) >= 128 /\ Val(q) < 192
      Size(q) ==
        IF ~isByte[q] \/ Val(q) < 128 THEN 1
        ELSE IF Val(q) >= 194 /\ Val(q) <= 223 THEN 2
        ELSE IF Val(q) >= 224 /\ Val(q) <= 239 THEN 3
        ELSE IF Val(q) >= 240 /\ Val(q) <= 244 THEN 4
        ELSE 0
      Low(q) == Val(q) % 64
      Point(q) ==
        CASE Size(q) = 1 -> Val(q)
          [] Size(q) = 2 -> (Val(q) - 192) * 64 + Low(q + 1)
          [] Size(q) = 3 -> (Val(q) - 224) * 4096 + Low(q + 1) * 64 + Low(q + 2)
          [] OTHER -> (Val(q) - 240) * 262144 + Low(q + 1) * 4096
                        + Low(q + 2) * 64 + Low(q + 3)
      LeadOK(q) ==
        /\ Size(q) > 0
        /\ \A j \in 1..(Size(q) - 1) : Cont(q + j)
        /\ Size(q) = 3 => Point(q) >= 2048 /\ ~(Point(q) >= 55296 /\ Point(q) <= 57343)
        /\ Size(q) = 4 => Point(q) >= 65536 /\ Point(q) <= 1114111
      ContOK(q) ==
        \E d \in 1..3 :
          /\ q - d >= 1
          /\ ~Cont(q - d)
          /\ Size(q - d) > d
          /\ \A j \in 1..(d - 1) : Cont(q - j)
      Points(leads) == [i \in 1..Len(leads) |-> Point(leads[i])]
  IN IF \E q \in 1..m : IF Cont(q) THEN ~ContOK(q) ELSE ~LeadOK(q) THEN Fail
     ELSE [ok |-> TRUE,
           s |-> Points(SelectSeq([q \in 1..m |-> q], LAMBDA q : ~Cont(q)))]

decodeURIComponent(t) ==
  LET Hex(p) == p >= 1 /\ p <= Len(t) /\ IsHex(t[p])
      Pct(p) == p >= 1 /\ p <= Len(t) /\ t[p] = PERCENT
      Consumed(p) == Pct(p - 1) \/ Pct(p - 2)
      wellFormed == \A p \in 1..Len(t) : Pct(p) => Hex(p + 1) /\ Hex(p + 2)
      Byte(p) == IF Pct(p) THEN HexVal(t[p + 1]) * 16 + HexVal(t[p + 2]) ELSE t[p]
      Kept(keep) ==
        DecodeBytes([q \in 1..Len(keep) |-> Byte(keep[q])],
                    [q \in 1..Len(keep) |-> Pct(keep[q])])
  IN IF ~wellFormed THEN Fail
     ELSE Kept(SelectSeq(Indices(t), LAMBDA p : ~Consumed(p)))

\* The base64 alphabet.
B64Char(v) ==
  IF v < 26 THEN CodeOf("A") + v
  ELSE IF v < 52 THEN CodeOf("a") + (v - 26)
  ELSE IF v < 62 THEN CodeOf("0") + (v - 52)
  ELSE IF v = 62 THEN CodeOf("+")
  ELSE CodeOf("/")
IsB64(c) == IsAlnum(c) \/ c = CodeOf("+") \/ c = CodeOf("/")
B64Val(c) ==
  IF c >= CodeOf("A") /\ c <= CodeOf("Z") THEN c - CodeOf("A")
  ELSE IF c >= CodeOf("a") /\ c <= CodeOf("z") THEN c - CodeOf("a") + 26
  ELSE IF c >= CodeOf("0") /\ c <= CodeOf("9") THEN c - CodeOf("0") + 52
  ELSE IF c = CodeOf("+") THEN 62
  ELSE 63

\* btoa of a binary string (a code above 255 is an InvalidCharacterError; the
\* output of unescape(encodeURIComponent(..)) has none).
btoa(bin) ==
  LET n == Len(bin)
      Byte(j) == IF j <= n THEN bin[j] ELSE 0
  IN [i \in 1..(4 * ((n + 2) \div 3)) |->
        LET g == (i - 1) \div 4
            r == (i - 1) % 4
            b1 == Byte(3 * g + 1)
            b2 == Byte(3 * g + 2)
            b3 == Byte(3 * g + 3)
        IN CASE r = 0 -> B64Char(b1 \div 4)
             [] r = 1 -> B64Char((b1 % 4) * 16 + (b2 \div 16))
             [] r = 2 -> IF 3 * g + 2 > n THEN CodeOf("=")
                         ELSE B64Char((b2 % 16) * 4 + (b3 \div 64))
             [] OTHER -> IF 3 * g + 3 > n THEN CodeOf("=")
                         ELSE B64Char(b3 % 64)]

\* atob (forgiving-base64 decode): ASCII whitespace is dropped, one or two
\* trailing = are dropped from a length that is a multiple of 4, and what is
\* left must be base64 characters, not 1 more than a multiple of 4.
atob(str) ==
  LET Pad(nows, n0) ==
        IF n0 % 4 = 0 /\ n0 > 0 /\ nows[n0] = CodeOf("=")
        THEN (IF nows[n0 - 1] = CodeOf("=") THEN 2 ELSE 1)
        ELSE 0
      Bytes(nows, n) ==
        IF n % 4 = 1 \/ \E j \in 1..n : ~IsB64(nows[j]) THEN Fail
        ELSE [ok |-> TRUE,
              s |-> [i \in 1..(((n \div 4) * 3) + (IF n % 4 = 0 THEN 0 ELSE (n % 4) - 1)) |->
                       LET g == (i - 1) \div 3
                           r == (i - 1) % 3
                           D(j) == B64Val(nows[j])
                       IN CASE r = 0 -> D(4 * g + 1) * 4 + (D(4 * g + 2) \div 16)
                            [] r = 1 -> (D(4 * g + 2) % 16) * 16 + (D(4 * g + 3) \div 4)
                            [] OTHER -> (D(4 * g + 3) % 4) * 64 + D(4 * g + 4)]]
      Stripped(nows) == Bytes(nows, Len(nows) - Pad(nows, Len(nows)))
  IN Stripped(SelectSeq(str, LAMBDA c : c \notin {CodeOf(" "), LF, LF - 1, LF + 2, LF + 3}))

(***************************************************************************)
(* The application's objects (types.ts).  A Song, a Playlist and a         *)
(* ProducerProfile are records whose fields hold JavaScript values; a      *)
(* field the object does not have holds Undefined.                         *)
(***************************************************************************)
K_id == Lit(<<"i", "d">>)
K_name == Lit(<<"n", "a", "m", "e">>)
K_url == Lit(<<"u", "r", "l">>)
K_duration == Lit(<<"d", "u", "r", "a", "t", "i", "o", "n">>)
K_file == Lit(<<"f", "i", "l", "e">>)
K_analyzing == Lit(<<"a", "n", "a", "l", "y", "z", "i", "n", "g">>)
K_bpm == Lit(<<"b", "p", "m">>)
K_genre == Lit(<<"g", "e", "n", "r", "e">>)
K_key == Lit(<<"k", "e", "y">>)
K_mood == Lit(<<"m", "o", "o", "d">>)
K_instrumentation ==
  Lit(<<"i", "n", "s", "t", "r", "u", "m", "e", "n", "t", "a", "t", "i", "o", "n">>)
K_genreTags == Lit(<<"g", "e", "n", "r", "e", "T", "a", "g", "s">>)
K_comments == Lit(<<"c", "o", "m", "m", "e", "n", "t", "s">>)
K_text == Lit(<<"t", "e", "x", "t">>)
K_songs == Lit(<<"s", "o", "n", "g", "s">>)
K_expiresAt == Lit(<<"e", "x", "p", "i", "r", "e", "s", "A", "t">>)
K_password == Lit(<<"p", "a", "s", "s", "w", "o", "r", "d">>)
K_producerProfile ==
  Lit(<<"p", "r", "o", "d", "u", "c", "e", "r", "P", "r", "o", "f", "i", "l", "e">>)
K_contactInfo == Lit(<<"c", "o", "n", "t", "a", "c", "t", "I", "n", "f", "o">>)
K_bio == Lit(<<"b", "i", "o">>)

\* interface Comment
Comment(text) == Obj(<<Prop(K_text, Str(text))>>)

\* interface Song
SongFields ==
  {"id", "name", "url", "duration", "file", "analyzing", "bpm", "genre", "key",
   "mood", "instrumentation", "genreTags", "comments"}
TagFields == {"bpm", "genre", "key", "mood", "instrumentation", "genreTags"}
NoSong == [f \in SongFields |-> Undefined]

\* { ...obj, ...updates }: updates is a function on the keys it has.
Spread(obj, updates) ==
  [f \in DOMAIN obj |-> IF f \in DOMAIN updates THEN updates[f] ELSE obj[f]]
\* const { a, b, ...rest } = obj
Rest(obj, fields) == [f \in DOMAIN obj |-> IF f \in fields THEN Undefined ELSE obj[f]]

SongToObj(song) ==
  Obj(<<Prop(K_id, song.id), Prop(K_name, song.name), Prop(K_duration, song.duration),
        Prop(K_file, song.file), Prop(K_analyzing, song.analyzing),
        Prop(K_bpm, song.bpm), Prop(K_key, song.key), Prop(K_genre, song.genre),
        Prop(K_mood, song.mood), Prop(K_instrumentation, song.instrumentation),
        Prop(K_genreTags, song.genreTags), Prop(K_comments, song.comments),
        Prop(K_url, song.url)>>)
SongOf(obj) ==
  [id |-> Get(obj, K_id), name |-> Get(obj, K_name), url |-> Get(obj, K_url),
   duration |-> Get(obj, K_duration), file |-> Get(obj, K_file),
   analyzing |-> Get(obj, K_analyzing), bpm |-> Get(obj, K_bpm),
   genre |-> Get(obj, K_genre), key |-> Get(obj, K_key), mood |-> Get(obj, K_mood),
   instrumentation |-> Get(obj, K_instrumentation),
   genreTags |-> Get(obj, K_genreTags), comments |-> Get(obj, K_comments)]

\* interface ProducerProfile
ProfileToObj(pr) ==
  IF IsUndef(pr) THEN Undefined
  ELSE Obj(<<Prop(K_name, pr.name), Prop(K_contactInfo, pr.contactInfo),
             Prop(K_bio, pr.bio)>>)
ProfileOf(obj) ==
  IF ~IsObj(obj) THEN Undefined
  ELSE [name |-> Get(obj, K_name), contactInfo |-> Get(obj, K_contactInfo),
        bio |-> Get(obj, K_bio)]

\* interface Playlist
SongsToArr(songs) == Arr([i \in 1..Len(songs) |-> SongToObj(songs[i])])
SongsOf(arr) == IF IsArr(arr) THEN [i \in 1..Len(arr.a) |-> SongOf(arr.a[i])] ELSE <<>>
PlaylistToObj(pl) ==
  Obj(<<Prop(K_id, pl.id), Prop(K_name, pl.name), Prop(K_songs, SongsToArr(pl.songs)),
        Prop(K_expiresAt, pl.expiresAt), Prop(K_password, pl.password),
        Prop(K_producerProfile, ProfileToObj(pl.producerProfile))>>)
PlaylistOf(obj) ==
  [id |-> Get(obj, K_id), name |-> Get(obj, K_name), songs |-> SongsOf(Get(obj, K_songs)),
   expiresAt |-> Get(obj, K_expiresAt), password |-> Get(obj, K_password),
   producerProfile |-> ProfileOf(Get(obj, K_producerProfile))]

SongIds(songs) == [i \in 1..Len(songs) |-> songs[i].id]
HasId(songs, id) == \E i \in 1..Len(songs) : songs[i].id = id
\* songs.find(s => s.id === id), for an id that occurs
Find(songs, id) == songs[CHOOSE i \in 1..Len(songs) :
                           songs[i].id = id /\ \A j \in 1..(i - 1) : songs[j].id # id]
\* songs.findIndex(s => s.id === id), 0-based, -1 when there is none
FindIndex(songs, id) ==
  IF HasId(songs, id)
  THEN (CHOOSE i \in 1..Len(songs) :
          songs[i].id = id /\ \A j \in 1..(i - 1) : songs[j].id # id) - 1
  ELSE -1
MapSeq(xs, F(_)) == [i \in 1..Len(xs) |-> F(xs[i])]

(***************************************************************************)
(* The environment: the clock, the files a producer has, the replies of    *)
(* the analysis service, and what a user types.                            *)
(***************************************************************************)
S_Untitled == Lit(<<"U", "n", "t", "i", "t", "l", "e", "d", " ",
                    "P", "l", "a", "y", "l", "i", "s", "t">>)
S_playlist == Lit(<<"p", "l", "a", "y", "l", "i", "s", "t", "-">>)
S_NA == Lit(<<"N", "/", "A">>)
S_data == Lit(<<"d", "a", "t", "a", ":">>)
S_blob == Lit(<<"b", "l", "o", "b", ":">>)
S_base64 == Lit(<<";", "b", "a", "s", "e", "6", "4", ",">>)
S_audio == Lit(<<"a", "u", "d", "i", "o", "/">>)

\* The expiration choices of the ShareModal and their lengths in milliseconds.
Expirations == {"never", "24h", "7d", "30d"}
\* The durations in seconds, which DurationInMs is not.
DurationInSeconds(e) ==
  CASE e = "24h" -> NumMul(NumMul(NumOfInt(24), 60), 60)
    [] e = "7d" -> NumMul(NumMul(NumMul(NumOfInt(7), 24), 60), 60)
    [] e = "30d" -> NumMul(NumMul(NumMul(NumOfInt(30), 24), 60), 60)
DurationInMs(e) ==
  CASE e = "24h" -> NumMul(NumMul(NumMul(NumOfInt(24), 60), 60), 1000)
    [] e = "7d" -> NumMul(NumMul(NumMul(NumMul(NumOfInt(7), 24), 60), 60), 1000)
    [] e = "30d" -> NumMul(NumMul(NumMul(NumMul(NumOfInt(30), 24), 60), 60), 1000)

\* Date.now() takes these instants, in this order: a first instant, and for
\* each expiration the last instant at which a link made at the first is
\* still good and the first at which it is not.
T0 == Num(1700000, 0)
Instants ==
  <<T0,
    NumAdd(T0, DurationInMs("24h")), NumAdd(NumAdd(T0, DurationInMs("24h")), Num(0, 1)),
    NumAdd(T0, DurationInMs("7d")), NumAdd(NumAdd(T0, DurationInMs("7d")), Num(0, 1)),
    NumAdd(T0, DurationInMs("30d")), NumAdd(NumAdd(T0, DurationInMs("30d")), Num(0, 1))>>

\* A File: its name, size and MIME type, its bytes, and the duration in
\* seconds that an audio element reports for it (Infinity for a recording
\* whose container states no length).
File(name, type, bytes, duration) ==
  [file |-> [name |-> Str(name), size |-> NumOfInt(Len(bytes)), type |-> Str(type),
             bytes |-> bytes, duration |-> duration]]

S_mpeg == Lit(<<"a", "u", "d", "i", "o", "/", "m", "p", "e", "g">>)
S_webm == Lit(<<"a", "u", "d", "i", "o", "/", "w", "e", "b", "m">>)
FileA == File(Lit(<<"a", ".", "m", "p", "3">>), S_mpeg, <<73, 68, 51, 4>>, NumOfInt(215))
FileB == File(<<233>> \o Lit(<<"\"", ".", "w", "e", "b", "m">>), S_webm,
              <<26, 69, 223, 163, 255>>, Infinity)
\* A recording of 4309 bytes: the link of a playlist of this one song is a
\* few characters below UrlLimit without an expiresAt and a few above with.
FileC == File(Lit(<<"c", ".", "m", "p", "3">>), S_mpeg,
              [i \in 1..4309 |-> (i * 7) % 256], NumOfInt(215))

\* window.location.origin and window.location.pathname of the deployment.
Origin == Lit(<<"h", "t", "t", "p", "s", ":", "/", "/", "h", "u", "b", ".", "i", "o">>)
Pathname == Lit(<<"/">>)

(***************************************************************************)
(* The state.                                                              *)
(***************************************************************************)
VARIABLES
  now,            \* Date.now()
  hash,           \* window.location.hash without its #
  localStorage,   \* the four items the app keeps; null when never set
  page,           \* "closed" before the app is first opened, then "open"
  \* App's state
  uploadedSongs, playlist, savedPlaylists, currentSong, isPlaying,
  isShareModalOpen, isViewerMode, isLinkExpired, isFeedbackModalOpen,
  passwordProtectedPlaylist, producerProfile, editingSongId, editFormData,
  \* PasswordPromptModal's state
  passwordAttempt, error,
  \* ShareModal's state
  expiration, shareUrl, usePassword, password, isProcessing, urlWarning,
  \* calls in flight: generateUrl, analyzeTrack, processFiles
  generations, analyses, uploads,
  \* history: the generateUrl call that made shareUrl, with the outcome of
  \* its reads and the object it serialized; the same for the link that the
  \* page was opened with (null for any other address); what the mount effect
  \* decoded from the fragment; the instant of the mount; and whether nothing
  \* has happened on the page since the mount
  linkSource, hashSource, decodedPlaylist, openedAt, fresh,
  \* the number of steps taken, which the specifications bound
  steps,
  \* the service worker: its lifecycle state, the browser's CacheStorage (the
  \* caches in the order they were created) and the fetch events it was
  \* sent, each with how far its handler has come and what it did
  swState, caches, requests

envVars == <<now, hash, localStorage, page>>
appVars ==
  <<uploadedSongs, playlist, savedPlaylists, currentSong, isPlaying, isShareModalOpen,
    isViewerMode, isLinkExpired, isFeedbackModalOpen, passwordProtectedPlaylist,
    producerProfile, editingSongId, editFormData>>
promptVars == <<passwordAttempt, error>>
modalVars == <<expiration, shareUrl, usePassword, password, isProcessing, urlWarning>>
asyncVars == <<generations, analyses, uploads>>
linkVars == <<linkSource, hashSource, decodedPlaylist, openedAt>>
historyVars == <<linkVars, fresh>>
pageVars == <<envVars, appVars, promptVars, modalVars, asyncVars, historyVars>>
workerVars == <<swState, caches, requests>>
vars == <<pageVars, steps, workerVars>>

\* useState's initial values (App.tsx 32-48, ShareModal.tsx 13-19).
InitialPlaylist(t) ==
  [id |-> Str(S_playlist \o NumDigits(t)), name |-> Str(S_Untitled), songs |-> <<>>,
   expiresAt |-> Undefined, password |-> Undefined, producerProfile |-> Undefined]
FormFields == {"name", "bpm", "key", "genre", "mood", "instrumentation", "genreTags"}
EmptyForm == [f \in FormFields |-> Undefined]
EmptyProfile == [name |-> Str(<<>>), contactInfo |-> Str(<<>>), bio |-> Str(<<>>)]
EmptyStorage ==
  [producerPlaylists |-> Null, producerProfile |-> Null, songLibrary |-> Null,
   activePlaylist |-> Null]

(***************************************************************************)
(* The save effects (App.tsx 103-131).                                     *)
(***************************************************************************)
StoredProfile(pr) == Str(JSONStringify(ProfileToObj(pr)))
StripFileUrl(song) == Rest(song, {"file", "url"})
StoredPlaylist(pl) ==
  Str(JSONStringify(PlaylistToObj([pl EXCEPT !.songs = MapSeq(pl.songs, StripFileUrl)])))
StoredLibrary(songs) == Str(JSONStringify(SongsToArr(MapSeq(songs, StripFileUrl))))
StoredPlaylists(pls) ==
  Str(JSONStringify(Arr([i \in 1..Len(pls) |-> PlaylistToObj(pls[i])])))

SaveProfile(ls, pr, viewer) ==
  IF ~viewer THEN [ls EXCEPT !.producerProfile = StoredProfile(pr)] ELSE ls
SaveWorkspace(ls, pl, songs, viewer) ==
  IF ~viewer
  THEN [ls EXCEPT !.activePlaylist = StoredPlaylist(pl),
                  !.songLibrary = StoredLibrary(songs)]
  ELSE ls

\* The effects after a handler has run: each runs when one of its
\* dependencies has changed.  `ls` is local storage as the handler left it.
SaveEffects(ls) ==
  LET Then(ls1) ==
        localStorage' =
          IF playlist' # playlist \/ uploadedSongs' # uploadedSongs
               \/ isViewerMode' # isViewerMode
          THEN SaveWorkspace(ls1, playlist', uploadedSongs', isViewerMode') ELSE ls1
  IN Then(IF producerProfile' # producerProfile \/ isViewerMode' # isViewerMode
          THEN SaveProfile(ls, producerProfile', isViewerMode') ELSE ls)

(***************************************************************************)
(* ShareModal: generateUrl (ShareModal.tsx 30-96).                         *)
(***************************************************************************)
UrlLimit == 8000

\* file && !url?.startsWith('data:')
NeedsRead(song) ==
  Truthy(song.file) /\ ~(IsStr(song.url) /\ StartsWith(song.url.s, 1, S_data))
\* FileReader.readAsDataURL
fileToDataUrl(f) == Str(S_data \o f.file.type.s \o S_base64 \o btoa(f.file.bytes))

\* A song that keeps the url it has when its file cannot be read, which
\* SongWithDataUrl does not.
SongWithUrlKept(song, readOk) ==
  LET restOfSong == Rest(song, {"file", "analyzing", "url"})
      dataUrl == IF NeedsRead(song) /\ readOk THEN fileToDataUrl(song.file)
                 ELSE song.url
  IN Spread(restOfSong, [url |-> dataUrl])

\* songsWithDataUrls; read[i] says whether the read of song i succeeded.
SongWithDataUrl(song, readOk) ==
  LET restOfSong == Rest(song, {"file", "analyzing", "url"})
      dataUrl == IF NeedsRead(song)
                 THEN (IF readOk THEN fileToDataUrl(song.file) ELSE Undefined)
                 ELSE song.url
  IN Spread(restOfSong, [url |-> dataUrl])

\* A simplifiedPlaylist that has the password whatever the switch says,
\* which SimplifiedPlaylist has not.
SimplifiedPlaylistWithTyped(g, read) ==
  [g.playlist EXCEPT
     !.expiresAt = g.expiresAt,
     !.password = IF g.password # <<>> THEN Str(g.password) ELSE Undefined,
     !.songs = [i \in 1..Len(g.playlist.songs) |->
                  SongWithDataUrl(g.playlist.songs[i], read[i])],
     !.producerProfile = g.producerProfile]

SimplifiedPlaylist(g, read) ==
  [g.playlist EXCEPT
     !.expiresAt = g.expiresAt,
     !.password = IF g.usePassword /\ g.password # <<>> THEN Str(g.password)
                  ELSE Undefined,
     !.songs = [i \in 1..Len(g.playlist.songs) |->
                  SongWithDataUrl(g.playlist.songs[i], read[i])],
     !.producerProfile = g.producerProfile]

Serialize(pl) == btoa(unescape(encodeURIComponent(JSONStringify(PlaylistToObj(pl)))))
FinalUrl(pl) == Origin \o Pathname \o <<CodeOf("#")>> \o Serialize(pl)
Warning(len) == [warning |-> len]

\* The values a call of generateUrl closes over, and its expiresAt.
Generation(e, pl, usePw, pw, pr, t) ==
  [expiresAt |-> IF e # "never" THEN NumAdd(t, DurationInMs(e)) ELSE Undefined,
   playlist |-> pl, usePassword |-> usePw, password |-> pw, producerProfile |-> pr,
   expiration |-> e, startedAt |-> t]

\* What follows the await: the link, and the warning when it is long, which
\* is set and never cleared here.
FinishGeneration(g, read, warningBefore) ==
  \E simplified \in {SimplifiedPlaylist(g, read)} :
    \E finalUrl \in {FinalUrl(simplified)} :
      /\ urlWarning' = IF Len(finalUrl) > UrlLimit THEN Warning(Len(finalUrl))
                       ELSE warningBefore
      /\ shareUrl' = finalUrl
      /\ isProcessing' = FALSE
      /\ linkSource' = [call |-> g, read |-> read, playlist |-> simplified]

\* The outcomes of the file reads of a playlist's songs: a song that needs
\* no read has nothing to fail.
ReadOutcomes(pl) ==
  {r \in [1..Len(pl.songs) -> BOOLEAN] : \A i \in 1..Len(pl.songs) : ~NeedsRead(pl.songs[i]) => r[i]}

\* The effect's body while the modal is open.  Up to the await the call is
\* synchronous; with no file to read, what follows the await runs before any
\* other event, and otherwise the call stays in flight until its reads end.
StartGeneration ==
  \E g \in {Generation(expiration', playlist', usePassword', password',
                       producerProfile', now')} :
    IF \E i \in 1..Len(g.playlist.songs) : NeedsRead(g.playlist.songs[i])
    THEN /\ isProcessing' = TRUE
         /\ urlWarning' = Null
         /\ shareUrl' = <<>>
         /\ generations' = Append(generations, g)
         /\ linkSource' = Null
    ELSE /\ FinishGeneration(g, [i \in 1..Len(g.playlist.songs) |-> TRUE], Null)
         /\ generations' = generations

\* The effect's body while the modal is closed.
ResetShareModal ==
  /\ expiration' = "never"
  /\ usePassword' = FALSE
  /\ password' = <<>>
  /\ isProcessing' = FALSE
  /\ urlWarning' = Null

\* The ShareModal effect after a handler of App has run: its dependencies
\* playlist and producerProfile are new objects whenever they were set.
ShareEffect(depsChanged) ==
  /\ UNCHANGED <<expiration, usePassword, password>>
  /\ IF ~depsChanged THEN UNCHANGED <<shareUrl, isProcessing, urlWarning, generations, linkSource>>
     ELSE IF isShareModalOpen' THEN StartGeneration
     ELSE /\ isProcessing' = FALSE
          /\ urlWarning' = Null
          /\ UNCHANGED <<shareUrl, generations, linkSource>>

\* The reads of a generateUrl call in flight have all ended.
GenerationDone(i, read) ==
  /\ page = "open"
  /\ i \in 1..Len(generations)
  /\ read \in ReadOutcomes(generations[i].playlist)
  /\ FinishGeneration(generations[i], read, urlWarning)
  /\ generations' = SubSeq(generations, 1, i - 1) \o SubSeq(generations, i + 1, Len(generations))
  /\ UNCHANGED <<envVars, appVars, promptVars, expiration, usePassword, password,
                 analyses, uploads, hashSource, decodedPlaylist, openedAt>>
  /\ fresh' = FALSE

\* What the user can reach: a modal covers the page below it, and the
\* link-expired view replaces the page.
MainPage ==
  /\ page = "open"
  /\ ~isLinkExpired
  /\ ~isShareModalOpen
  /\ ~isFeedbackModalOpen
  /\ IsNull(passwordProtectedPlaylist)
\* Controls that are on the page in viewer mode too, which ProducerControls
\* are not.
ControlsInViewerMode == MainPage
\* The controls rendered under !isViewerMode (App.tsx 688, 810, 872, 891, 901).
ProducerControls == MainPage /\ ~isViewerMode

\* The Share button (App.tsx 881).
OpenShareModal ==
  /\ ProducerControls
  /\ Len(playlist.songs) > 0
  /\ isShareModalOpen' = TRUE
  /\ UNCHANGED <<envVars, uploadedSongs, playlist, savedPlaylists, currentSong, isPlaying,
                 isViewerMode, isLinkExpired, isFeedbackModalOpen,
                 passwordProtectedPlaylist, producerProfile, editingSongId, editFormData,
                 promptVars, expiration, usePassword, password, analyses, uploads,
                 hashSource, decodedPlaylist, openedAt>>
  /\ fresh' = FALSE
  /\ StartGeneration

\* onClose (ShareModal.tsx 110, 121) and the effect's else branch.
CloseShareModal ==
  /\ page = "open"
  /\ isShareModalOpen
  /\ isShareModalOpen' = FALSE
  /\ ResetShareModal
  /\ UNCHANGED <<envVars, uploadedSongs, playlist, savedPlaylists, currentSong, isPlaying,
                 isViewerMode, isLinkExpired, isFeedbackModalOpen,
                 passwordProtectedPlaylist, producerProfile, editingSongId, editFormData,
                 promptVars, shareUrl, asyncVars, linkVars>>
  /\ fresh' = FALSE

\* The expiration select (ShareModal.tsx 130).
SetExpiration(e) ==
  /\ page = "open"
  /\ isShareModalOpen
  /\ e \in Expirations \ {expiration}
  /\ expiration' = e
  /\ UNCHANGED <<envVars, appVars, promptVars, usePassword, password, analyses, uploads,
                 hashSource, decodedPlaylist, openedAt>>
  /\ fresh' = FALSE
  /\ StartGeneration

\* The password-protection switch (ShareModal.tsx 146).
ToggleUsePassword ==
  /\ page = "open"
  /\ isShareModalOpen
  /\ usePassword' = ~usePassword
  /\ UNCHANGED <<envVars, appVars, promptVars, expiration, password, analyses, uploads,
                 hashSource, decodedPlaylist, openedAt>>
  /\ fresh' = FALSE
  /\ StartGeneration

\* The password input, shown while the switch is on (ShareModal.tsx 152-164).
SetPassword(pw) ==
  /\ page = "open"
  /\ isShareModalOpen
  /\ usePassword
  /\ pw # password
  /\ password' = pw
  /\ UNCHANGED <<envVars, appVars, promptVars, expiration, usePassword, analyses, uploads,
                 hashSource, decodedPlaylist, openedAt>>
  /\ fresh' = FALSE
  /\ StartGeneration

(***************************************************************************)
(* Opening the page: the first render and the mount effect (App.tsx        *)
(* 54-101), then the save effects, which run in this same commit with the  *)
(* initial state, and again after the state the mount effect has set.      *)
(***************************************************************************)
DecodeHash(h) ==
  LET Text(d) == IF ~d.ok THEN Fail ELSE JSONParse(d.s)
      Binary(a) == IF ~a.ok THEN Fail ELSE Text(decodeURIComponent(escape(a.s)))
  IN Binary(atob(h))

Defaults(initial) ==
  [uploadedSongs |-> <<>>, playlist |-> initial, savedPlaylists |-> <<>>,
   currentSong |-> Null, isViewerMode |-> FALSE, isLinkExpired |-> FALSE,
   passwordProtectedPlaylist |-> Null, producerProfile |-> EmptyProfile,
   decoded |-> Null]

\* d is what the try block's first statement gives: the parsed fragment, or
\* the exception that the catch swallows.
MountFromHash(d, t, initial) ==
  LET Decoded(decoded) ==
        IF Truthy(decoded.expiresAt) /\ Greater(t, decoded.expiresAt)
        THEN [Defaults(initial) EXCEPT !.isLinkExpired = TRUE, !.decoded = decoded]
        ELSE IF Truthy(decoded.password)
        THEN [Defaults(initial) EXCEPT !.passwordProtectedPlaylist = decoded,
                                        !.decoded = decoded]
        ELSE [Defaults(initial) EXCEPT
                !.playlist = decoded,
                !.isViewerMode = TRUE,
                !.currentSong = IF Len(decoded.songs) > 0 THEN decoded.songs[1] ELSE Null,
                !.decoded = decoded]
  IN IF ~d.ok \/ ~IsObj(d.v) THEN Defaults(initial) ELSE Decoded(PlaylistOf(d.v))

LoadItem(item) == IF Truthy(item) THEN JSONParse(item.s) ELSE [ok |-> TRUE, v |-> Undefined]
PlaylistsOf(arr) ==
  IF IsArr(arr) THEN [i \in 1..Len(arr.a) |-> PlaylistOf(arr.a[i])] ELSE <<>>

\* One try block: a JSON.parse that throws skips the items after it.
MountFromStorage(ls, initial) ==
  LET Loaded(l1, l2, l3, l4) ==
        LET ok2 == l1.ok /\ l2.ok
            ok3 == ok2 /\ l3.ok
            ok4 == ok3 /\ l4.ok
        IN [Defaults(initial) EXCEPT
              !.savedPlaylists = IF l1.ok /\ ~IsUndef(l1.v) THEN PlaylistsOf(l1.v) ELSE @,
              !.producerProfile = IF ok2 /\ ~IsUndef(l2.v) THEN ProfileOf(l2.v) ELSE @,
              !.uploadedSongs = IF ok3 /\ ~IsUndef(l3.v) THEN SongsOf(l3.v) ELSE @,
              !.playlist = IF ok4 /\ ~IsUndef(l4.v) THEN PlaylistOf(l4.v) ELSE @]
  IN Loaded(LoadItem(ls.producerPlaylists), LoadItem(ls.producerProfile),
            LoadItem(ls.songLibrary), LoadItem(ls.activePlaylist))

\* A mount that falls back on local storage when the fragment cannot be
\* parsed, which Mount does not.
MountWithFallback(h, d, t, ls) ==
  LET initial == InitialPlaylist(t)
  IN IF h # <<>> /\ d.ok THEN MountFromHash(d, t, initial)
     ELSE MountFromStorage(ls, initial)

Mount(h, d, t, ls) ==
  LET initial == InitialPlaylist(t)
  IN IF h # <<>> THEN MountFromHash(d, t, initial) ELSE MountFromStorage(ls, initial)

\* Local storage after the commit of the mount.
MountStorage(m, t, ls) ==
  LET ls0 == SaveWorkspace(SaveProfile(ls, EmptyProfile, FALSE),
                           InitialPlaylist(t), <<>>, FALSE)
  IN SaveWorkspace(SaveProfile(ls0, m.producerProfile, m.isViewerMode),
                   m.playlist, m.uploadedSongs, m.isViewerMode)

\* The page is opened, or opened again, at instant t with fragment h; src is
\* the object the link was made from, null for any other address.  Calls in
\* flight belong to the page that is left and are lost with it.
OpenPageWith(h, src, d, t) ==
  /\ ~NumGT(now, t)
  /\ now' = t
  /\ hash' = h
  /\ page' = "open"
  /\ \E m \in {Mount(h, d, t, localStorage)} :
        /\ uploadedSongs' = m.uploadedSongs
        /\ playlist' = m.playlist
        /\ savedPlaylists' = m.savedPlaylists
        /\ currentSong' = m.currentSong
        /\ isViewerMode' = m.isViewerMode
        /\ isLinkExpired' = m.isLinkExpired
        /\ passwordProtectedPlaylist' = m.passwordProtectedPlaylist
        /\ producerProfile' = m.producerProfile
        /\ decodedPlaylist' = m.decoded
        /\ localStorage' = MountStorage(m, t, localStorage)
  /\ isPlaying' = FALSE
  /\ isShareModalOpen' = FALSE
  /\ isFeedbackModalOpen' = FALSE
  /\ editingSongId' = Null
  /\ editFormData' = EmptyForm
  /\ passwordAttempt' = <<>>
  /\ error' = ""
  /\ expiration' = "never"
  /\ shareUrl' = <<>>
  /\ usePassword' = FALSE
  /\ password' = <<>>
  /\ isProcessing' = FALSE
  /\ urlWarning' = Null
  /\ generations' = <<>>
  /\ analyses' = <<>>
  /\ uploads' = <<>>
  /\ linkSource' = Null
  /\ hashSource' = src
  /\ openedAt' = t
  /\ fresh' = TRUE

OpenPage(h, src, t) == OpenPageWith(h, src, DecodeHash(h), t)

\* The page is opened at one of the instants from now on; the fragment is
\* the same at each, and so is what it decodes to.
Later == {Instants[i] : i \in 1..Len(Instants)}
OpenPageLater(h, src) ==
  \E d \in {DecodeHash(h)} : \E t \in Later : OpenPageWith(h, src, d, t)

\* Fragments that no ShareModal wrote: atob throws on the first, the bytes of
\* the second are not UTF-8, the text of the third is not JSON.
MalformedHashes ==
  {Lit(<<"%", "%", "%">>), btoa(<<195>>), btoa(<<CodeOf("{")>>)}

\* The fragment of the link the ShareModal shows.
Fragment(url) == SubSeq(url, Len(Origin) + Len(Pathname) + 2, Len(url))
LinkShown == page = "open" /\ isShareModalOpen /\ ~isProcessing /\ shareUrl # <<>>


(***************************************************************************)
(* PasswordPromptModal (App.tsx 486-527) and handleUnlockPlaylist          *)
(* (App.tsx 436-443).                                                      *)
(***************************************************************************)
\* A comparison that any text passes, which Matches is not.
MatchesAnyText(attempt, correctPassword) == attempt # <<>>
\* passwordAttempt === correctPassword (App.tsx 489).
Matches(attempt, correctPassword) == Str(attempt) = correctPassword

\* The input's onChange: the text is another one than before.
TypeAttempt(a) ==
  /\ page = "open"
  /\ ~isLinkExpired
  /\ ~IsNull(passwordProtectedPlaylist)
  /\ a # passwordAttempt
  /\ passwordAttempt' = a
  /\ error' = ""
  /\ UNCHANGED <<envVars, appVars, modalVars, asyncVars, linkVars>>
  /\ fresh' = FALSE

SubmitAttempt ==
  /\ page = "open"
  /\ ~isLinkExpired
  /\ ~IsNull(passwordProtectedPlaylist)
  /\ IF Matches(passwordAttempt, passwordProtectedPlaylist.password)
     THEN /\ passwordProtectedPlaylist' = Null
          /\ playlist' = passwordProtectedPlaylist
          /\ isViewerMode' = TRUE
          /\ currentSong' = IF Len(passwordProtectedPlaylist.songs) > 0
                            THEN passwordProtectedPlaylist.songs[1] ELSE currentSong
          /\ passwordAttempt' = <<>>
          /\ error' = ""
     ELSE /\ error' = "Incorrect password. Please try again."
          /\ UNCHANGED <<passwordProtectedPlaylist, playlist, isViewerMode, currentSong,
                         passwordAttempt>>
  /\ UNCHANGED <<now, hash, page, uploadedSongs, savedPlaylists, isPlaying,
                 isShareModalOpen, isLinkExpired, isFeedbackModalOpen, producerProfile,
                 editingSongId, editFormData, asyncVars, hashSource,
                 decodedPlaylist, openedAt>>
  /\ fresh' = FALSE
  /\ SaveEffects(localStorage)
  /\ ShareEffect(playlist' # playlist)

(***************************************************************************)
(* What every handler of App shares: the page stays, and after the render  *)
(* the effects run whose dependencies the handler has set.                 *)
(***************************************************************************)
SamePage ==
  /\ UNCHANGED <<now, hash, page, hashSource, decodedPlaylist, openedAt>>
  /\ fresh' = FALSE

\* currentSong?.id
CurrentId == IF IsNull(currentSong) THEN Undefined ELSE currentSong.id

\* The effect on currentSong (App.tsx 140-151): a song without a url cannot
\* play.
PlayingEffect(playing) ==
  isPlaying' = IF currentSong' # currentSong /\ ~IsNull(currentSong')
                    /\ ~Truthy(currentSong'.url)
               THEN FALSE ELSE playing

\* updateSongInState (App.tsx 185-195); curId is the currentSong?.id of the
\* render that made the callback.
\* An updater without the test of the id.
UpdateAnySong(songId, updates, song) == Spread(song, updates)
UpdateSong(songId, updates, song) == IF song.id = songId THEN Spread(song, updates) ELSE song
updateSongInState(songId, updates, curId) ==
  /\ uploadedSongs' = [i \in 1..Len(uploadedSongs) |->
                         UpdateSong(songId, updates, uploadedSongs[i])]
  /\ playlist' = [playlist EXCEPT !.songs =
                    [i \in 1..Len(playlist.songs) |->
                       UpdateSong(songId, updates, playlist.songs[i])]]
  /\ currentSong' = IF curId = songId /\ ~IsNull(currentSong)
                    THEN Spread(currentSong, updates) ELSE currentSong

(***************************************************************************)
(* FileUpload.processFiles and handleSongsUploaded (App.tsx 265-295).      *)
(***************************************************************************)
\* name.replace(/\.[^/.]+$/, "")
StripExtension(name) ==
  LET dots == {i \in 1..Len(name) : name[i] = CodeOf(".")}
  IN IF dots = {} THEN name
     ELSE LET d == CHOOSE i \in dots : \A j \in dots : j <= i
          IN IF d < Len(name) /\ \A j \in (d + 1)..Len(name) : name[j] # CodeOf("/")
             THEN SubSeq(name, 1, d - 1) ELSE name

\* URL.createObjectURL: an opaque blob: address; the size stands for its UUID.
createObjectURL(f) == Str(S_blob \o Origin \o Pathname \o NumDigits(f.file.size))

\* The Song that processFiles makes of a file at instant t.
NewSong(f, t) ==
  [id |-> Str(f.file.name.s \o <<CodeOf("-")>> \o NumDigits(f.file.size)
              \o <<CodeOf("-")>> \o NumDigits(t)),
   name |-> Str(StripExtension(f.file.name.s)),
   url |-> createObjectURL(f),
   duration |-> f.file.duration,
   file |-> f]
IsAudio(f) == StartsWith(f.file.type.s, 1, S_audio)
NewSongs(files, t) ==
  LET Songs(audio) == [i \in 1..Len(audio) |-> NewSong(audio[i], t)]
  IN Songs(SelectSeq(files, IsAudio))

\* songMap.set(key, value): a key the map has keeps its place.
MapSet(songs, song) ==
  IF HasId(songs, song.id)
  THEN [i \in 1..Len(songs) |-> IF songs[i].id = song.id THEN song ELSE songs[i]]
  ELSE Append(songs, song)

\* The forEach over newSongs: the map's values and songsToAnalyze.
RECURSIVE MergeSongs(_, _, _)
MergeSongs(songMap, toAnalyze, newSongs) ==
  IF newSongs = <<>> THEN [songMap |-> songMap, songsToAnalyze |-> toAnalyze]
  ELSE LET newSong == Head(newSongs)
           exists == HasId(songMap, newSong.id)
           isNewAnalysisNeeded == ~exists \/ ~Truthy(Find(songMap, newSong.id).bpm)
           Set(updatedSong) ==
             MergeSongs(MapSet(songMap, updatedSong),
                        IF isNewAnalysisNeeded THEN Append(toAnalyze, updatedSong)
                        ELSE toAnalyze,
                        Tail(newSongs))
       IN Set([Spread(IF exists THEN Find(songMap, newSong.id) ELSE NoSong, newSong)
                 EXCEPT !.analyzing = Bool(isNewAnalysisNeeded)])

\* The file input's change event: processFiles starts with the handlers of
\* this render and waits for the durations.
UploadStart(files) ==
  /\ ProducerControls
  /\ uploads' = Append(uploads, [files |-> files, uploadedSongs |-> uploadedSongs,
                                 curId |-> CurrentId])
  /\ UNCHANGED <<envVars, appVars, promptVars, modalVars, generations, analyses,
                 linkVars>>
  /\ fresh' = FALSE

\* The durations are known: processFiles calls the handleSongsUploaded it
\* was made with, whose uploadedSongs is the library of that render.
UploadDone(i) ==
  /\ page = "open"
  /\ i \in 1..Len(uploads)
  /\ \E u \in {uploads[i]} :
     \E m \in {MergeSongs(u.uploadedSongs, <<>>, NewSongs(u.files, now))} :
        /\ uploadedSongs' = m.songMap
        /\ playlist' = [playlist EXCEPT !.songs =
                          [k \in 1..Len(playlist.songs) |->
                             IF HasId(m.songMap, playlist.songs[k].id)
                             THEN Find(m.songMap, playlist.songs[k].id)
                             ELSE playlist.songs[k]]]
        /\ analyses' = analyses \o [k \in 1..Len(m.songsToAnalyze) |->
                                      [id |-> m.songsToAnalyze[k].id, curId |-> u.curId]]
  /\ uploads' = SubSeq(uploads, 1, i - 1) \o SubSeq(uploads, i + 1, Len(uploads))
  /\ UNCHANGED <<savedPlaylists, currentSong, isPlaying, isShareModalOpen, isViewerMode,
                 isLinkExpired, isFeedbackModalOpen, passwordProtectedPlaylist,
                 producerProfile, editingSongId, editFormData, promptVars>>
  /\ SamePage
  /\ SaveEffects(localStorage)
  /\ ShareEffect(TRUE)

(***************************************************************************)
(* analyzeTrack and handleManualAnalysis (App.tsx 197-244).                *)
(***************************************************************************)
\* The updates of a reply whose JSON is data; a reply that cannot be read
\* is null here and takes the catch branch.
\* The updates of the try branch (App.tsx 225-233).
ReplyUpdates(data) ==
  LET Or(v, d) == IF Truthy(v) THEN v ELSE d
  IN [bpm |-> Or(Get(data, K_bpm), Str(S_NA)),
      key |-> Or(Get(data, K_key), Str(S_NA)),
      genre |-> Or(Get(data, K_genre), Str(S_NA)),
      mood |-> Or(Get(data, K_mood), Str(S_NA)),
      instrumentation |-> Or(Get(data, K_instrumentation), Arr(<<>>)),
      genreTags |-> Or(Get(data, K_genreTags), Arr(<<>>)),
      analyzing |-> Bool(FALSE)]
\* A catch branch that updates nothing, which that of analyzeTrack does not.
AnalysisUpdatesKeepingFlag(data) ==
  IF IsNull(data) THEN [f \in {} |-> Undefined] ELSE ReplyUpdates(data)
AnalysisUpdates(data) ==
  IF IsNull(data) THEN [analyzing |-> Bool(FALSE)] ELSE ReplyUpdates(data)

AnalysisDone(i, data) ==
  /\ page = "open"
  /\ i \in 1..Len(analyses)
  /\ updateSongInState(analyses[i].id, AnalysisUpdates(data), analyses[i].curId)
  /\ analyses' = SubSeq(analyses, 1, i - 1) \o SubSeq(analyses, i + 1, Len(analyses))
  /\ uploads' = uploads
  /\ PlayingEffect(isPlaying)
  /\ UNCHANGED <<savedPlaylists, isShareModalOpen, isViewerMode, isLinkExpired,
                 isFeedbackModalOpen, passwordProtectedPlaylist, producerProfile,
                 editingSongId, editFormData, promptVars>>
  /\ SamePage
  /\ SaveEffects(localStorage)
  /\ ShareEffect(TRUE)

\* The Analyze button of a library song (App.tsx 825-829).
handleManualAnalysis(k) ==
  /\ ProducerControls
  /\ k \in 1..Len(uploadedSongs)
  /\ ~Truthy(uploadedSongs[k].analyzing)
  /\ updateSongInState(uploadedSongs[k].id, [analyzing |-> Bool(TRUE)], CurrentId)
  /\ analyses' = Append(analyses, [id |-> uploadedSongs[k].id, curId |-> CurrentId])
  /\ uploads' = uploads
  /\ PlayingEffect(isPlaying)
  /\ UNCHANGED <<savedPlaylists, isShareModalOpen, isViewerMode, isLinkExpired,
                 isFeedbackModalOpen, passwordProtectedPlaylist, producerProfile,
                 editingSongId, editFormData, promptVars>>
  /\ SamePage
  /\ SaveEffects(localStorage)
  /\ ShareEffect(TRUE)

(***************************************************************************)
(* The playlist and the library (App.tsx 297-345).                         *)
(***************************************************************************)
\* A filter that drops the song and every song after it.
FilterFrom(songs, songId) ==
  SubSeq(songs, 1, (CHOOSE n \in 1..(Len(songs) + 1) :
                      /\ n <= Len(songs) => songs[n].id = songId
                      /\ \A m \in 1..(n - 1) : songs[m].id # songId) - 1)
\* songs.filter(s => s.id !== songId)
Filter(songs, songId) == SelectSeq(songs, LAMBDA x : x.id # songId)
\* An assignment of one position only, which loses the other song.
Overwritten(songs, i, j) == [songs EXCEPT ![i] = songs[j]]
\* The destructuring assignment that exchanges two positions.
Swap(songs, i, j) ==
  [k \in 1..Len(songs) |-> IF k = i THEN songs[j] ELSE IF k = j THEN songs[i] ELSE songs[k]]

\* Neither handler sets anything but the playlist, the library and the player.
ListFrame ==
  /\ UNCHANGED <<savedPlaylists, isShareModalOpen, isViewerMode, isLinkExpired,
                 isFeedbackModalOpen, passwordProtectedPlaylist, producerProfile,
                 editingSongId, editFormData, promptVars, analyses, uploads>>
  /\ SamePage
  /\ SaveEffects(localStorage)

\* [...prev.songs, song] whether or not the playlist has the song.
SongsWithAppended(songs, song) == Append(songs, song)
\* The songs after addSongToPlaylist(song) (App.tsx 298-299).
SongsWithAdded(songs, song) ==
  IF ~HasId(songs, song.id) THEN Append(songs, song) ELSE songs

\* The Add button of a library song.
addSongToPlaylist(k) ==
  /\ ProducerControls
  /\ k \in 1..Len(uploadedSongs)
  /\ playlist' = [playlist EXCEPT !.songs = SongsWithAdded(@, uploadedSongs[k])]
  /\ UNCHANGED <<uploadedSongs, currentSong, isPlaying>>
  /\ ListFrame
  /\ ShareEffect(~HasId(playlist.songs, uploadedSongs[k].id))

\* A removal that leaves the player as it is.
removeSongKeepingPlayer(songId) ==
  /\ playlist' = [playlist EXCEPT !.songs = SelectSeq(@, LAMBDA x : x.id # songId)]
  /\ UNCHANGED <<currentSong, isPlaying>>
\* The Remove button of a playlist song.
removeSongFromPlaylist(songId) ==
  /\ playlist' = [playlist EXCEPT !.songs = Filter(@, songId)]
  /\ IF CurrentId = songId
     THEN currentSong' = Null /\ isPlaying' = FALSE
     ELSE UNCHANGED <<currentSong, isPlaying>>
RemoveSong(k) ==
  /\ ProducerControls
  /\ k \in 1..Len(playlist.songs)
  /\ removeSongFromPlaylist(playlist.songs[k].id)
  /\ uploadedSongs' = uploadedSongs
  /\ ListFrame
  /\ ShareEffect(TRUE)

\* The Delete button of a library song.
deleteSongFromLibrary(k) ==
  /\ ProducerControls
  /\ k \in 1..Len(uploadedSongs)
  /\ uploadedSongs' = Filter(uploadedSongs, uploadedSongs[k].id)
  /\ removeSongFromPlaylist(uploadedSongs[k].id)
  /\ ListFrame
  /\ ShareEffect(TRUE)

\* newSongs of reorderSongInPlaylist, or the songs as they are when the
\* handler sets nothing; songIndex counts from 0 as findIndex does.
Reordered(songs, songId, direction) ==
  LET songIndex == FindIndex(songs, songId)
  IN IF songIndex = -1 THEN songs
     ELSE IF direction = "up" /\ songIndex > 0
     THEN Swap(songs, songIndex, songIndex + 1)
     ELSE IF direction = "down" /\ songIndex < Len(songs) - 1
     THEN Swap(songs, songIndex + 2, songIndex + 1)
     ELSE songs

\* reorderSongInPlaylist (App.tsx 332-345).
reorderSongInPlaylist(songId, direction) ==
  /\ ProducerControls
  /\ direction \in {"up", "down"}
  /\ playlist' = [playlist EXCEPT !.songs = Reordered(@, songId, direction)]
  /\ UNCHANGED <<uploadedSongs, currentSong, isPlaying>>
  /\ ListFrame
  /\ ShareEffect(playlist' # playlist)

\* The arrows of the playlist's song k (App.tsx 901-910): the first has up
\* disabled, the last has down disabled.
ReorderButton(k, direction) ==
  /\ ProducerControls
  /\ k \in 1..Len(playlist.songs)
  /\ IF direction = "up" THEN k > 1 ELSE k < Len(playlist.songs)

\* The playlist name input (App.tsx 867).
RenamePlaylist(name) ==
  /\ MainPage
  /\ IF ~isViewerMode
     THEN playlist' = [playlist EXCEPT !.name = Str(name)]
     ELSE playlist' = playlist
  /\ UNCHANGED <<uploadedSongs, currentSong, isPlaying>>
  /\ ListFrame
  /\ ShareEffect(~isViewerMode)

\* The inputs of the producer profile (App.tsx 625-637).
EditProfile(field, value) ==
  /\ ProducerControls
  /\ field \in {"name", "contactInfo", "bio"}
  /\ producerProfile' = [producerProfile EXCEPT ![field] = Str(value)]
  /\ UNCHANGED <<uploadedSongs, playlist, savedPlaylists, currentSong, isPlaying,
                 isShareModalOpen, isViewerMode, isLinkExpired, isFeedbackModalOpen,
                 passwordProtectedPlaylist, editingSongId, editFormData, promptVars,
                 analyses, uploads>>
  /\ SamePage
  /\ SaveEffects(localStorage)
  /\ ShareEffect(TRUE)

(***************************************************************************)
(* Saved playlists (App.tsx 347-417).                                      *)
(***************************************************************************)
HasPlaylist(pls, id) == \E i \in 1..Len(pls) : pls[i].id = id
FindPlaylist(pls, id) ==
  pls[CHOOSE i \in 1..Len(pls) : pls[i].id = id /\ \A j \in 1..(i - 1) : pls[j].id # id]
StripForSave(song) == Rest(song, {"file", "analyzing", "url"})

SavedFrame ==
  /\ UNCHANGED <<uploadedSongs, currentSong, isPlaying, isShareModalOpen, isViewerMode,
                 isLinkExpired, isFeedbackModalOpen, passwordProtectedPlaylist,
                 editingSongId, editFormData, promptVars, analyses, uploads>>
  /\ SamePage

\* newPlaylists when the playlist is appended whether or not it is saved.
AlwaysAppended(prev, playlistToSave) == Append(prev, playlistToSave)
\* newPlaylists of the updater in handleSavePlaylist (App.tsx 354-362).
Upserted(prev, playlistToSave) ==
  IF HasPlaylist(prev, playlistToSave.id)
  THEN LET existingIndex ==
             CHOOSE i \in 1..Len(prev) :
               /\ prev[i].id = playlistToSave.id
               /\ \A j \in 1..(i - 1) : prev[j].id # playlistToSave.id
       IN [prev EXCEPT ![existingIndex] = playlistToSave]
  ELSE Append(prev, playlistToSave)

\* The Save button, disabled while the playlist has no songs (App.tsx 875).
handleSavePlaylist ==
  /\ ProducerControls
  /\ Len(playlist.songs) > 0
  /\ LET playlistToSave ==
           [playlist EXCEPT !.producerProfile = producerProfile,
                            !.songs = MapSeq(playlist.songs, StripForSave)]
         newPlaylists == Upserted(savedPlaylists, playlistToSave)
     IN /\ savedPlaylists' = newPlaylists
        /\ localStorage' =
             [localStorage EXCEPT !.producerPlaylists = StoredPlaylists(newPlaylists)]
  /\ UNCHANGED <<playlist, producerProfile>>
  /\ SavedFrame
  /\ ShareEffect(FALSE)

\* Songs that are the saved copies whatever the library has.
SavedCopies(songs, library) == songs
\* hydratedSongs of handleLoadPlaylist (App.tsx 392-395).
HydratedSongs(songs, library) ==
  [i \in 1..Len(songs) |->
     IF HasId(library, songs[i].id) THEN Find(library, songs[i].id) ELSE songs[i]]

\* handleLoadPlaylist (App.tsx 389-403): with no saved playlist of the id
\* nothing is set.
handleLoadPlaylist(playlistId) ==
  /\ ProducerControls
  /\ savedPlaylists' = savedPlaylists
  /\ SavedFrame
  /\ IF HasPlaylist(savedPlaylists, playlistId)
     THEN LET playlistToLoad == FindPlaylist(savedPlaylists, playlistId)
          IN /\ playlist' = [playlistToLoad EXCEPT
                               !.songs = HydratedSongs(@, uploadedSongs)]
             /\ producerProfile' = IF Truthy(playlistToLoad.producerProfile)
                                   THEN playlistToLoad.producerProfile
                                   ELSE producerProfile
             /\ SaveEffects(localStorage)
             /\ ShareEffect(TRUE)
     ELSE UNCHANGED <<playlist, producerProfile, localStorage, modalVars, generations,
                      linkSource>>

handleDeleteSavedPlaylist(k) ==
  /\ ProducerControls
  /\ k \in 1..Len(savedPlaylists)
  /\ LET newPlaylists ==
           SelectSeq(savedPlaylists, LAMBDA x : x.id # savedPlaylists[k].id)
     IN /\ savedPlaylists' = newPlaylists
        /\ localStorage' =
             [localStorage EXCEPT !.producerPlaylists = StoredPlaylists(newPlaylists)]
  /\ UNCHANGED <<playlist, producerProfile>>
  /\ SavedFrame
  /\ ShareEffect(FALSE)

handleNewPlaylist ==
  /\ ProducerControls
  /\ playlist' = InitialPlaylist(now)
  /\ UNCHANGED <<savedPlaylists, producerProfile>>
  /\ SavedFrame
  /\ SaveEffects(localStorage)
  /\ ShareEffect(TRUE)

(***************************************************************************)
(* Editing a song's metadata (App.tsx 445-484).                            *)
(***************************************************************************)
\* Array.prototype.join(', ') on strings
RECURSIVE Join(_)
Join(xs) ==
  IF xs = <<>> THEN <<>>
  ELSE IF Len(xs) = 1 THEN xs[1].s
  ELSE xs[1].s \o <<CodeOf(","), CodeOf(" ")>> \o Join(Tail(xs))

\* String.prototype.trim
IsSpace(c) == c \in {CodeOf(" "), 9, 10, 13}
Trim(t) ==
  LET inked == {i \in 1..Len(t) : ~IsSpace(t[i])}
  IN IF inked = {} THEN <<>>
     ELSE SubSeq(t, CHOOSE i \in inked : \A j \in inked : i <= j,
                 CHOOSE i \in inked : \A j \in inked : j <= i)

\* text.split(',').map(s => s.trim()).filter(Boolean)
SplitTags(t) ==
  LET commas == SelectSeq([i \in 1..Len(t) |-> i], LAMBDA i : t[i] = CodeOf(","))
      cuts == <<0>> \o commas \o <<Len(t) + 1>>
      parts == [i \in 1..(Len(cuts) - 1) |->
                  Str(Trim(SubSeq(t, cuts[i] + 1, cuts[i + 1] - 1)))]
  IN Arr(SelectSeq(parts, Truthy))

\* The songs on the page: the library in producer mode, and the playlist.
SongsShown == (IF isViewerMode THEN <<>> ELSE uploadedSongs) \o playlist.songs

EditFrame ==
  /\ UNCHANGED <<savedPlaylists, isShareModalOpen, isViewerMode, isLinkExpired,
                 isFeedbackModalOpen, passwordProtectedPlaylist, producerProfile,
                 promptVars, analyses, uploads>>
  /\ SamePage

\* The Edit button: one of the actions that SongItem shows in producer mode.
handleStartEditing(k) ==
  /\ MainPage
  /\ ~isViewerMode
  /\ k \in 1..Len(SongsShown)
  /\ LET song == SongsShown[k]
         OrEmpty(v) == IF Truthy(v) THEN v.s ELSE <<>>
         List(v) == IF Truthy(v) THEN v.a ELSE <<>>
     IN /\ editingSongId' = song.id
        /\ editFormData' =
             [name |-> song.name.s, bpm |-> OrEmpty(song.bpm), key |-> OrEmpty(song.key),
              genre |-> OrEmpty(song.genre), mood |-> OrEmpty(song.mood),
              instrumentation |-> Join(List(song.instrumentation)),
              genreTags |-> Join(List(song.genreTags))]
  /\ UNCHANGED <<uploadedSongs, playlist, currentSong, isPlaying, localStorage, modalVars,
                 generations, linkSource>>
  /\ EditFrame

\* The edit form is on the page while a song shown has the id being edited.
EditFormShown ==
  /\ MainPage
  /\ \E k \in 1..Len(SongsShown) : SongsShown[k].id = editingSongId

handleEditFormChange(name, value) ==
  /\ EditFormShown
  /\ name \in FormFields
  /\ editFormData' = [editFormData EXCEPT ![name] = value]
  /\ UNCHANGED <<uploadedSongs, playlist, currentSong, isPlaying, editingSongId,
                 localStorage, modalVars, generations, linkSource>>
  /\ EditFrame

handleCancelEditing ==
  /\ EditFormShown
  /\ editingSongId' = Null
  /\ editFormData' = EmptyForm
  /\ UNCHANGED <<uploadedSongs, playlist, currentSong, isPlaying, localStorage, modalVars,
                 generations, linkSource>>
  /\ EditFrame

handleSaveEditing ==
  /\ EditFormShown
  /\ LET OrUndefined(t) == IF t # <<>> THEN Str(t) ELSE Undefined
         updates ==
           [name |-> Str(editFormData.name),
            bpm |-> OrUndefined(editFormData.bpm),
            key |-> OrUndefined(editFormData.key),
            genre |-> OrUndefined(editFormData.genre),
            mood |-> OrUndefined(editFormData.mood),
            instrumentation |-> SplitTags(editFormData.instrumentation),
            genreTags |-> SplitTags(editFormData.genreTags)]
     IN updateSongInState(editingSongId, updates, CurrentId)
  /\ editingSongId' = Null
  /\ editFormData' = EmptyForm
  /\ PlayingEffect(isPlaying)
  /\ EditFrame
  /\ SaveEffects(localStorage)
  /\ ShareEffect(TRUE)

(***************************************************************************)
(* The player (App.tsx 140-168, 246-257).                                  *)
(***************************************************************************)
PlayerFrame ==
  /\ UNCHANGED <<uploadedSongs, playlist, savedPlaylists, isShareModalOpen, isViewerMode,
                 isLinkExpired, isFeedbackModalOpen, passwordProtectedPlaylist,
                 producerProfile, editingSongId, editFormData, promptVars, localStorage,
                 modalVars, asyncVars, linkSource>>
  /\ SamePage

\* The play buttons of the songs shown and of the footer; a song without a
\* url has its button disabled.  The audio element has a source once the
\* current song had a url, and only then does play() start it.
handlePlayPause(song) ==
  /\ MainPage
  /\ Truthy(song.url)
  /\ IF CurrentId = song.id
     THEN /\ currentSong' = currentSong
          /\ isPlaying' = IF isPlaying THEN FALSE ELSE Truthy(currentSong.url)
     ELSE /\ currentSong' = song
          /\ PlayingEffect(TRUE)
  /\ PlayerFrame
PlayButtons ==
  {SongsShown[k] : k \in 1..Len(SongsShown)}
    \cup (IF IsNull(currentSong) THEN {} ELSE {currentSong})

\* The audio element's ended event.  Whether the element has fired pause
\* before it depends on the browser; pausedFirst says which.
\* A test that lets the first song follow the last.
AdvancesAround(songs, currentIdx) == currentIdx # -1
\* currentIdx !== -1 && currentIdx < playlist.songs.length - 1
Advances(songs, currentIdx) == currentIdx # -1 /\ currentIdx < Len(songs) - 1
handleSongEnd(pausedFirst) ==
  /\ page = "open"
  /\ isPlaying
  /\ ~IsNull(currentSong)
  /\ LET currentIdx == FindIndex(playlist.songs, currentSong.id)
     IN IF Advances(playlist.songs, currentIdx)
        THEN /\ currentSong' = playlist.songs[((currentIdx + 1) % Len(playlist.songs)) + 1]
             /\ PlayingEffect(~pausedFirst)
        ELSE /\ currentSong' = currentSong
             /\ isPlaying' = FALSE
  /\ PlayerFrame

(***************************************************************************)
(* The viewer: comments and the feedback export (App.tsx 419-434,          *)
(* 529-614, 752, 779-786).                                                 *)
(***************************************************************************)
\* The comment form of a playlist song, shown in viewer mode under a song
\* that is neither analyzing nor being edited.
\* song.comments || []
CommentsOf(song) == IF Truthy(song.comments) THEN song.comments.a ELSE <<>>
handleAddComment(k, commentText) ==
  /\ MainPage
  /\ isViewerMode
  /\ k \in 1..Len(playlist.songs)
  /\ ~Truthy(playlist.songs[k].analyzing)
  /\ playlist.songs[k].id # editingSongId
  /\ playlist' =
       IF Trim(commentText) = <<>> THEN playlist
       ELSE [playlist EXCEPT !.songs =
               [i \in 1..Len(playlist.songs) |->
                  IF playlist.songs[i].id = playlist.songs[k].id
                  THEN [playlist.songs[i] EXCEPT !.comments =
                          Arr(CommentsOf(playlist.songs[i]) \o <<Comment(commentText)>>)]
                  ELSE playlist.songs[i]]]
  /\ UNCHANGED <<uploadedSongs, currentSong, isPlaying>>
  /\ ListFrame
  /\ ShareEffect(Trim(commentText) # <<>>)

\* generateFeedbackText (App.tsx 568-585), the value of the FeedbackModal's
\* textarea.
S_Feedback ==
  Lit(<<"F", "e", "e", "d", "b", "a", "c", "k", " ", "f", "o", "r", " ",
        "P", "l", "a", "y", "l", "i", "s", "t", ":", " ", "\"">>)
S_From == Lit(<<"F", "r", "o", "m", ":", " ">>)
S_Track == Lit(<<"T", "r", "a", "c", "k", ":", " ">>)
S_Dash == Lit(<<"-", " ">>)
\* A test that every song passes.
EverySong(song) == TRUE
\* song.comments && song.comments.length > 0
HasComments(song) == Truthy(song.comments) /\ Len(song.comments.a) > 0
RECURSIVE CommentLines(_)
CommentLines(comments) ==
  IF comments = <<>> THEN <<>>
  ELSE S_Dash \o Get(Head(comments), K_text).s \o <<LF>> \o CommentLines(Tail(comments))
RECURSIVE TrackTexts(_)
TrackTexts(songs) ==
  IF songs = <<>> THEN <<>>
  ELSE (IF HasComments(Head(songs))
        THEN S_Track \o Head(songs).name.s \o <<LF>>
               \o CommentLines(CommentsOf(Head(songs))) \o <<LF>>
        ELSE <<>>)
       \o TrackTexts(Tail(songs))
generateFeedbackText(pl) ==
  S_Feedback \o pl.name.s \o <<DQ, LF>>
    \o (IF Truthy(pl.producerProfile) /\ Truthy(pl.producerProfile.name)
        THEN S_From \o pl.producerProfile.name.s \o <<LF>> ELSE <<>>)
    \o <<LF>>
    \o TrackTexts(pl.songs)

\* The Export Feedback button and the modal's backdrop.
OpenFeedbackModal ==
  /\ MainPage
  /\ isViewerMode
  /\ isFeedbackModalOpen' = TRUE
  /\ UNCHANGED <<envVars, uploadedSongs, playlist, savedPlaylists, currentSong, isPlaying,
                 isShareModalOpen, isViewerMode, isLinkExpired, passwordProtectedPlaylist,
                 producerProfile, editingSongId, editFormData, promptVars, modalVars,
                 asyncVars, linkVars>>
  /\ fresh' = FALSE
CloseFeedbackModal ==
  /\ page = "open"
  /\ isFeedbackModalOpen
  /\ isFeedbackModalOpen' = FALSE
  /\ UNCHANGED <<envVars, uploadedSongs, playlist, savedPlaylists, currentSong, isPlaying,
                 isShareModalOpen, isViewerMode, isLinkExpired, passwordProtectedPlaylist,
                 producerProfile, editingSongId, editFormData, promptVars, modalVars,
                 asyncVars, linkVars>>
  /\ fresh' = FALSE

\* Time passes.
Tick(t) ==
  /\ NumGT(t, now)
  /\ now' = t
  /\ UNCHANGED <<hash, localStorage, page, appVars, promptVars, modalVars, asyncVars,
                 historyVars>>

\* Before the page is first opened; the browser may hold the items of an
\* earlier session.
InitOf(storage, cacheStorage) ==
  /\ swState = "installing"
  /\ caches = cacheStorage
  /\ requests = <<>>
  /\ now = T0
  /\ hash = <<>>
  /\ localStorage = storage
  /\ page = "closed"
  /\ uploadedSongs = <<>>
  /\ playlist = InitialPlaylist(T0)
  /\ savedPlaylists = <<>>
  /\ currentSong = Null
  /\ isPlaying = FALSE
  /\ isShareModalOpen = FALSE
  /\ isViewerMode = FALSE
  /\ isLinkExpired = FALSE
  /\ isFeedbackModalOpen = FALSE
  /\ passwordProtectedPlaylist = Null
  /\ producerProfile = EmptyProfile
  /\ editingSongId = Null
  /\ editFormData = EmptyForm
  /\ passwordAttempt = <<>>
  /\ error = ""
  /\ expiration = "never"
  /\ shareUrl = <<>>
  /\ usePassword = FALSE
  /\ password = <<>>
  /\ isProcessing = FALSE
  /\ urlWarning = Null
  /\ generations = <<>>
  /\ analyses = <<>>
  /\ uploads = <<>>
  /\ linkSource = Null
  /\ hashSource = Null
  /\ decodedPlaylist = Null
  /\ openedAt = T0
  /\ fresh = FALSE
  /\ steps = 0
InitWith(storage) == InitOf(storage, <<>>)


(***************************************************************************)
(* Inputs: what users type, what the analysis service replies, the         *)
(* workspace of an earlier session, and links made by a ShareModal.        *)
(***************************************************************************)
S_Mix == Lit(<<"M", "i", "x">>)
S_DJ == Lit(<<"D", "J", " ">>) \o <<233>>
S_pw == Lit(<<"p", "w">>)
S_no == Lit(<<"n", "o">>)
S_ok == Lit(<<"o", "k">>)
S_tags == Lit(<<"l", "o", "-", "f", "i", ",", " ", ",", "d", "u", "b">>)
Reply ==
  Obj(<<Prop(K_bpm, Str(Lit(<<"9", "0">>))), Prop(K_key, Str(Lit(<<"A", "m">>))),
        Prop(K_instrumentation, Arr(<<Str(Lit(<<"s", "a", "x">>))>>))>>)

\* Songs as an upload and its analysis leave them: FileA analysed, FileB
\* with no reply from the service.
SongA == Spread(MergeSongs(<<>>, <<>>, NewSongs(<<FileA>>, T0)).songMap[1],
                AnalysisUpdates(Reply))
SongB == Spread(MergeSongs(<<>>, <<>>, NewSongs(<<FileB>>, T0)).songMap[1],
                AnalysisUpdates(Null))
ProfileDJ == [EmptyProfile EXCEPT !.name = Str(S_DJ)]
PlaylistMix == [InitialPlaylist(T0) EXCEPT !.name = Str(S_Mix), !.songs = <<SongA, SongB>>]

\* The items that the save effects and handleSavePlaylist leave for the
\* workspace above.
ReturningStorage ==
  [SaveWorkspace(SaveProfile(EmptyStorage, ProfileDJ, FALSE), PlaylistMix,
                 <<SongA, SongB>>, FALSE)
     EXCEPT !.producerPlaylists =
       StoredPlaylists(<<[PlaylistMix EXCEPT !.producerProfile = ProfileDJ,
                                              !.songs = MapSeq(@, StripForSave)]>>)]

\* The links a ShareModal makes of these playlists at the first instant.
MakeLink(g, read) ==
  LET simplified == SimplifiedPlaylist(g, read)
  IN [h |-> Serialize(simplified),
      src |-> [call |-> g, read |-> read, playlist |-> simplified]]
KnownLinks ==
  {MakeLink(Generation(e, PlaylistMix, pw # <<>>, pw, ProfileDJ, T0), <<TRUE, TRUE>>) :
     e \in {"never", "24h"}, pw \in {<<>>, S_pw}}

(***************************************************************************)
(* The whole app.                                                          *)
(***************************************************************************)
MaxSteps == 5
MaxLibrary == 2
MaxUploads == 1
MaxAnalyses == 2
MaxGenerations == 2
MaxSaved == 1
MaxComments == 1

Budget == steps < MaxSteps /\ steps' = steps + 1 /\ UNCHANGED workerVars
NoBudget == steps' = steps /\ UNCHANGED workerVars
GenerationRoom == Len(generations) < MaxGenerations
\* The outcomes that the reads of call i can have.
Reads(i) == IF i \in 1..Len(generations) THEN ReadOutcomes(generations[i].playlist) ELSE {}
CommentRoom(k) ==
  IF k \in 1..Len(playlist.songs) /\ Truthy(playlist.songs[k].comments)
  THEN Len(playlist.songs[k].comments.a) < MaxComments ELSE TRUE
SavedRoom ==
  IF HasPlaylist(savedPlaylists, playlist.id) THEN TRUE ELSE Len(savedPlaylists) < MaxSaved

Init == \E storage \in {EmptyStorage, ReturningStorage} : InitWith(storage)

Next ==
  \/ Budget /\ OpenPage(<<>>, Null, now)
  \/ Budget /\ page = "open" /\ hash # <<>> /\ OpenPage(hash, hashSource, now)
  \/ Budget /\ LinkShown /\ OpenPage(Fragment(shareUrl), linkSource, now)
  \/ \E a \in KnownLinks : Budget /\ page = "closed" /\ OpenPage(a.h, a.src, now)
  \/ \E h \in MalformedHashes : Budget /\ page = "closed" /\ OpenPage(h, Null, now)
  \/ \E t \in {Instants[2], Instants[3]} : Budget /\ Tick(t)
  \/ GenerationRoom /\ Budget /\ OpenShareModal
  \/ Budget /\ CloseShareModal
  \/ \E e \in Expirations : GenerationRoom /\ Budget /\ SetExpiration(e)
  \/ GenerationRoom /\ Budget /\ ToggleUsePassword
  \/ \E pw \in {<<>>, S_pw} : GenerationRoom /\ Budget /\ SetPassword(pw)
  \/ \E i \in 1..MaxGenerations : \E read \in Reads(i) :
       Budget /\ GenerationDone(i, read)
  \/ \E a \in {S_pw, S_no} : Budget /\ TypeAttempt(a)
  \/ Budget /\ SubmitAttempt
  \/ \E f \in {FileA, FileB} :
       /\ Len(uploads) < MaxUploads
       /\ Len(uploadedSongs) < MaxLibrary \/ HasId(uploadedSongs, NewSong(f, now).id)
       /\ Budget
       /\ UploadStart(<<f>>)
  \/ \E i \in 1..MaxUploads : GenerationRoom /\ Budget /\ UploadDone(i)
  \/ \E i \in 1..MaxAnalyses, data \in {Reply, Null} :
       GenerationRoom /\ Budget /\ AnalysisDone(i, data)
  \/ \E k \in 1..MaxLibrary : Len(analyses) < MaxAnalyses /\ Budget /\ handleManualAnalysis(k)
  \/ \E k \in 1..MaxLibrary : Budget /\ addSongToPlaylist(k)
  \/ \E k \in 1..MaxLibrary : Budget /\ RemoveSong(k)
  \/ \E k \in 1..MaxLibrary : Budget /\ deleteSongFromLibrary(k)
  \/ \E k \in 1..MaxLibrary, d \in {"up", "down"} :
       Budget /\ ReorderButton(k, d) /\ reorderSongInPlaylist(playlist.songs[k].id, d)
  \/ \E n \in {S_Mix} : Budget /\ RenamePlaylist(n)
  \/ \E f \in {"name"}, v \in {S_DJ} : Budget /\ EditProfile(f, v)
  \/ SavedRoom /\ Budget /\ handleSavePlaylist
  \/ \E k \in 1..MaxSaved :
       Budget /\ k \in 1..Len(savedPlaylists) /\ handleLoadPlaylist(savedPlaylists[k].id)
  \/ \E k \in 1..MaxSaved : Budget /\ handleDeleteSavedPlaylist(k)
  \/ Budget /\ handleNewPlaylist
  \/ \E k \in 1..(2 * MaxLibrary) : Budget /\ handleStartEditing(k)
  \/ \E f \in {"name", "genreTags"}, v \in {S_tags} : Budget /\ handleEditFormChange(f, v)
  \/ Budget /\ handleCancelEditing
  \/ Budget /\ handleSaveEditing
  \/ \E song \in PlayButtons : Budget /\ handlePlayPause(song)
  \/ \E b \in BOOLEAN : Budget /\ handleSongEnd(b)
  \/ \E k \in 1..MaxLibrary, c \in {S_ok, <<CodeOf(" ")>>} :
       CommentRoom(k) /\ Budget /\ handleAddComment(k, c)
  \/ Budget /\ OpenFeedbackModal
  \/ Budget /\ CloseFeedbackModal

Spec == Init /\ [][Next]_vars

(***************************************************************************)
(* Sharing: a returning producer makes links of the stored playlist in     *)
(* the ShareModal, and the links are opened, now or later.                 *)
(***************************************************************************)
InitShare == InitWith(ReturningStorage)

NextShare ==
  \/ NoBudget /\ OpenPage(<<>>, Null, now)
  \/ NoBudget /\ page = "open" /\ hash # <<>> /\ OpenPageLater(hash, hashSource)
  \/ NoBudget /\ LinkShown /\ OpenPageLater(Fragment(shareUrl), linkSource)
  \/ \E h \in MalformedHashes : NoBudget /\ OpenPage(h, Null, now)
  \/ NoBudget /\ OpenShareModal
  \/ NoBudget /\ CloseShareModal
  \/ \E e \in Expirations : NoBudget /\ SetExpiration(e)
  \/ NoBudget /\ ToggleUsePassword
  \/ \E pw \in {<<>>, S_pw} : NoBudget /\ SetPassword(pw)
  \/ \E a \in {S_pw, S_no} : NoBudget /\ TypeAttempt(a)
  \/ NoBudget /\ SubmitAttempt

SpecShare == InitShare /\ [][NextShare]_vars

(***************************************************************************)
(* Files: a producer uploads recordings, puts them on the playlist, shares *)
(* it and reloads; the link is opened.                                     *)
(***************************************************************************)
InitFiles == InitWith(EmptyStorage)

NextFiles ==
  \/ NoBudget /\ OpenPage(<<>>, Null, now)
  \/ NoBudget /\ LinkShown /\ OpenPage(Fragment(shareUrl), linkSource, now)
  \/ \E files \in {<<FileB>>, <<FileA, FileB>>} :
       /\ Len(uploads) < MaxUploads
       /\ Len(uploadedSongs) + Len(files) <= MaxLibrary
       /\ Len(analyses) + Len(files) <= MaxAnalyses
       /\ NoBudget
       /\ UploadStart(files)
  \/ \E i \in 1..MaxUploads : GenerationRoom /\ NoBudget /\ UploadDone(i)
  \/ \E i \in 1..MaxAnalyses, data \in {Reply, Null} :
       GenerationRoom /\ NoBudget /\ AnalysisDone(i, data)
  \/ \E k \in 1..MaxLibrary : NoBudget /\ addSongToPlaylist(k)
  \/ GenerationRoom /\ NoBudget /\ OpenShareModal
  \/ NoBudget /\ CloseShareModal
  \/ \E i \in 1..MaxGenerations : \E read \in Reads(i) :
       NoBudget /\ GenerationDone(i, read)

SpecFiles == InitFiles /\ [][NextFiles]_vars

(***************************************************************************)
(* Size: a producer shares a playlist whose link is about as long as the   *)
(* limit, and changes the expiration while links are being made.           *)
(***************************************************************************)
InitSize == InitWith(EmptyStorage)

NextSize ==
  \/ NoBudget /\ page = "closed" /\ OpenPage(<<>>, Null, now)
  \/ NoBudget /\ uploads = <<>> /\ uploadedSongs = <<>> /\ UploadStart(<<FileC>>)
  \/ \E i \in 1..MaxUploads : GenerationRoom /\ NoBudget /\ UploadDone(i)
  \/ \E i \in 1..MaxAnalyses, data \in {Reply, Null} :
       GenerationRoom /\ NoBudget /\ AnalysisDone(i, data)
  \/ \E k \in 1..MaxLibrary : NoBudget /\ addSongToPlaylist(k)
  \/ GenerationRoom /\ NoBudget /\ OpenShareModal
  \/ NoBudget /\ CloseShareModal
  \/ \E e \in {"never", "24h"} : GenerationRoom /\ NoBudget /\ SetExpiration(e)
  \/ \E i \in 1..MaxGenerations : \E read \in Reads(i) :
       NoBudget /\ GenerationDone(i, read)

SpecSize == InitSize /\ [][NextSize]_vars

(***************************************************************************)
(* Properties of the links and of their opening.                           *)
(***************************************************************************)
\* The page shows what a link decoded to; hashSource is then the object the
\* ShareModal serialized into that link.
FromLink == page = "open" /\ ~IsNull(hashSource)
\* A step that mounts the page.
MountStep == fresh' /\ openedAt' = now' /\ page' = "open"
SourceExpired ==
  IsNum(hashSource.playlist.expiresAt) /\ NumGT(openedAt, hashSource.playlist.expiresAt)
SourceHasPassword ==
  IsStr(hashSource.playlist.password) /\ hashSource.playlist.password.s # <<>>

\* C2: a link whose expiresAt is set and lies strictly before the instant of
\* the mount puts the page in the link-expired state, in which the playlist
\* is still the default one, viewer mode is off and no password prompt is
\* shown, with or without a password in the link; at any instant up to and
\* including expiresAt the link is not expired.
C2_ExpirationCheck ==
  FromLink =>
    /\ isLinkExpired <=> SourceExpired
    /\ isLinkExpired =>
         /\ playlist = InitialPlaylist(openedAt)
         /\ playlist.id # hashSource.playlist.id
         /\ ~isViewerMode
         /\ IsNull(passwordProtectedPlaylist)
         /\ IsNull(currentSong)
C2_Witness ==
  /\ FromLink
  /\ isLinkExpired
  /\ SourceHasPassword
  /\ openedAt = NumAdd(hashSource.playlist.expiresAt, Num(0, 1))

\* C3: a link that is not expired and has a non-empty password is held as
\* the locked playlist only: the playlist is the default one, viewer mode
\* is off and no song is current, until a submitted attempt equals the
\* password.  A submitted attempt that differs leaves the page locked, with
\* an error message; one that is equal clears the locked playlist, makes it
\* the playlist, enters viewer mode and selects its first song.
C3_Locked ==
  FromLink /\ SourceHasPassword /\ ~SourceExpired =>
    \/ /\ passwordProtectedPlaylist = decodedPlaylist
       /\ playlist = InitialPlaylist(openedAt)
       /\ ~isViewerMode
       /\ IsNull(currentSong)
    \/ /\ ~fresh
       /\ IsNull(passwordProtectedPlaylist)
       /\ playlist.id = decodedPlaylist.id
       /\ isViewerMode
C3_Attempt ==
  ~IsNull(passwordProtectedPlaylist) /\ ~MountStep =>
    LET equal == Str(passwordAttempt) = hashSource.playlist.password
    IN /\ IsNull(passwordProtectedPlaylist') => equal
       /\ SubmitAttempt /\ ~equal =>
            /\ passwordProtectedPlaylist' = passwordProtectedPlaylist
            /\ error' # ""
            /\ ~isViewerMode'
            /\ playlist' = playlist
            /\ IsNull(currentSong')
       /\ SubmitAttempt /\ equal =>
            /\ IsNull(passwordProtectedPlaylist')
            /\ playlist' = passwordProtectedPlaylist
            /\ isViewerMode'
            /\ Len(playlist'.songs) > 0 => currentSong' = playlist'.songs[1]
\* C3, the password gate: the page is locked as C3_Locked says, and every
\* step from a locked page is as C3_Attempt says.
C3_PasswordGate == [](C3_Locked) /\ [][C3_Attempt]_vars
C3_Witness ==
  /\ FromLink
  /\ SourceHasPassword
  /\ isViewerMode
  /\ playlist = decodedPlaylist
  /\ currentSong = decodedPlaylist.songs[1]

\* A step in which a call of generateUrl starts, and the values the call
\* has closed over: the call is now in flight, or has ended in this step.
GenerationStarts ==
  \/ Len(generations') > Len(generations)
  \/ /\ Len(generations') = Len(generations)
     /\ ~IsNull(linkSource')
     /\ linkSource' # linkSource
StartedCall ==
  IF Len(generations') > Len(generations) THEN generations'[Len(generations')]
  ELSE linkSource'.call

ExpiresAtOf(e, t) ==
  CASE e = "never" -> Undefined
    [] e = "24h" -> NumAdd(t, Num(86, 400000))
    [] e = "7d" -> NumAdd(t, Num(604, 800000))
    [] e = "30d" -> NumAdd(t, Num(2592, 0))
C7_Call ==
  GenerationStarts =>
    /\ StartedCall.expiration = expiration'
    /\ StartedCall.startedAt = now'
    /\ StartedCall.expiresAt = ExpiresAtOf(expiration', now')
C7_Link ==
  /\ page = "open" /\ ~IsNull(linkSource) =>
       linkSource.playlist.expiresAt =
         ExpiresAtOf(linkSource.call.expiration, linkSource.call.startedAt)
  /\ FromLink =>
       /\ hashSource.playlist.expiresAt =
            ExpiresAtOf(hashSource.call.expiration, hashSource.call.startedAt)
       /\ decodedPlaylist.expiresAt = hashSource.playlist.expiresAt
       /\ hashSource.call.expiration = "never" => ~isLinkExpired
\* C7: the expiresAt of a link is absent when 'never' was selected when its
\* generation started, and otherwise the instant of the generation plus
\* 86,400,000 ms for '24h', 604,800,000 ms for '7d' and 2,592,000,000 ms for
\* '30d'; the same value is decoded when the link is opened, and a page
\* opened with a 'never' link is not in the link-expired state at any instant.
C7_ExpirationEncoding == [](C7_Link) /\ [][C7_Call]_vars
C7_Witness ==
  /\ FromLink
  /\ hashSource.call.expiration = "30d"
  /\ decodedPlaylist.expiresAt = Num(1702592, 0)
  /\ openedAt = Num(1702592, 0)
  /\ ~isLinkExpired

C8_Call ==
  GenerationStarts =>
    /\ StartedCall.usePassword = usePassword'
    /\ StartedCall.password = password'
C8_Link ==
  /\ page = "open" /\ ~IsNull(linkSource) =>
       linkSource.playlist.password =
         IF linkSource.call.usePassword /\ linkSource.call.password # <<>>
         THEN Str(linkSource.call.password) ELSE Undefined
  /\ FromLink =>
       LET protected == hashSource.call.usePassword /\ hashSource.call.password # <<>>
       IN /\ hashSource.playlist.password =
               IF protected THEN Str(hashSource.call.password) ELSE Undefined
          /\ decodedPlaylist.password = hashSource.playlist.password
          /\ ~protected => /\ IsNull(passwordProtectedPlaylist)
                           /\ ~isLinkExpired => isViewerMode
\* C8: a link has a password exactly when the switch was on and the typed
\* password was not empty when its generation started, and it is the typed
\* password; the same is decoded when the link is opened, and a link made
\* with the switch off, or with an empty password, opens without a password
\* prompt.
C8_PasswordEncoding == [](C8_Link) /\ [][C8_Call]_vars
C8_Witness ==
  /\ FromLink
  /\ ~hashSource.call.usePassword
  /\ hashSource.call.password = S_pw
  /\ IsNull(passwordProtectedPlaylist)
  /\ isViewerMode

\* C10: a mount with a non-empty fragment takes nothing from local storage,
\* and a mount with an empty fragment takes the workspace that local storage
\* holds.  After a mount with a fragment that cannot be decoded or parsed
\* the page is in producer mode with the default playlist, an empty
\* library, no saved playlists and an empty profile, neither expired nor
\* locked, and shows no error.
Stored(item, Of(_), default) ==
  IF Truthy(item) THEN Of(JSONParse(item.s).v) ELSE default
C10_Mount ==
  MountStep =>
    /\ hash' # <<>> =>
         /\ uploadedSongs' = <<>>
         /\ savedPlaylists' = <<>>
         /\ producerProfile' = EmptyProfile
         /\ playlist' \in {InitialPlaylist(now'), decodedPlaylist'}
    /\ hash' = <<>> =>
         /\ uploadedSongs' = Stored(localStorage.songLibrary, SongsOf, <<>>)
         /\ playlist' =
              Stored(localStorage.activePlaylist, PlaylistOf, InitialPlaylist(now'))
         /\ savedPlaylists' = Stored(localStorage.producerPlaylists, PlaylistsOf, <<>>)
         /\ producerProfile' =
              Stored(localStorage.producerProfile, ProfileOf, EmptyProfile)
         /\ ~isViewerMode' /\ ~isLinkExpired' /\ IsNull(passwordProtectedPlaylist')
C10_Malformed ==
  page = "open" /\ fresh /\ hash \in MalformedHashes =>
    /\ playlist = InitialPlaylist(openedAt)
    /\ playlist.name = Str(S_Untitled)
    /\ uploadedSongs = <<>>
    /\ savedPlaylists = <<>>
    /\ producerProfile = EmptyProfile
    /\ IsNull(currentSong)
    /\ ~isViewerMode
    /\ ~isLinkExpired
    /\ IsNull(passwordProtectedPlaylist)
    /\ error = ""
\* C10, the load source: every mount is as C10_Mount says, and the page
\* after a mount with a malformed fragment is as C10_Malformed says.
C10_LoadSource == [](C10_Malformed) /\ [][C10_Mount]_vars
C10_Witness ==
  /\ page = "open"
  /\ fresh
  /\ hash \in MalformedHashes
  /\ ~isViewerMode
  /\ localStorage.producerPlaylists = ReturningStorage.producerPlaylists
  /\ savedPlaylists = <<>>

\* Field by field equality of two records.
SameFields(a, b, fields) == \A f \in fields : a[f] = b[f]
RoundTrip(fields) ==
  /\ decodedPlaylist.id = hashSource.playlist.id
  /\ decodedPlaylist.name = hashSource.playlist.name
  /\ SongIds(decodedPlaylist.songs) = SongIds(hashSource.playlist.songs)
  /\ \A i \in 1..Len(decodedPlaylist.songs) :
       SameFields(decodedPlaylist.songs[i], hashSource.playlist.songs[i], fields)
  /\ decodedPlaylist.producerProfile = hashSource.playlist.producerProfile
  /\ decodedPlaylist.expiresAt = hashSource.playlist.expiresAt
  /\ decodedPlaylist.password = hashSource.playlist.password
\* C1: the playlist that the mount decodes from a link has the id, the name,
\* the song ids in their order, every field of every song, the
\* producerProfile, the expiresAt and the password of the object that the
\* ShareModal serialized into the link.
C1_RoundTrip == FromLink => RoundTrip(SongFields)
\* What is lost is the duration of a recording that is Infinity: JSON has
\* null for it.
C1_RoundTripButDuration ==
  FromLink =>
    /\ RoundTrip(SongFields \ {"duration"})
    /\ \A i \in 1..Len(decodedPlaylist.songs) :
         \/ decodedPlaylist.songs[i].duration = hashSource.playlist.songs[i].duration
         \/ /\ IsInf(hashSource.playlist.songs[i].duration)
            /\ IsNull(decodedPlaylist.songs[i].duration)

\* A url that holds the audio itself.
IsDataUrl(v) == IsStr(v) /\ StartsWith(v.s, 1, S_data)
SelfContained(song) ==
  /\ IsUndef(song.file)
  /\ IsUndef(song.analyzing)
  /\ IsUndef(song.url) \/ IsDataUrl(song.url)
  /\ ~(IsStr(song.url) /\ StartsWith(song.url.s, 1, S_blob))
Encoded(src) ==
  /\ SongIds(src.playlist.songs) = SongIds(src.call.playlist.songs)
  /\ \A i \in 1..Len(src.playlist.songs) :
       LET song == src.call.playlist.songs[i]
           encoded == src.playlist.songs[i]
       IN /\ SelfContained(encoded)
          /\ SameFields(encoded, song, SongFields \ {"file", "analyzing", "url"})
          /\ Truthy(song.file) =>
               encoded.url = IF src.read[i] THEN fileToDataUrl(song.file) ELSE Undefined
\* C5: a song of a link has no file and no analyzing field, and its url is
\* a data: URL or absent, never a blob: URL; a song whose file could not be
\* read has no url, and the link is made all the same, with every song of
\* the playlist and every other field of each.
C5_SelfContainedLink ==
  /\ page = "open" /\ ~IsNull(linkSource) => shareUrl # <<>> /\ Encoded(linkSource)
  /\ FromLink =>
       /\ Encoded(hashSource)
       /\ SongIds(decodedPlaylist.songs) = SongIds(hashSource.playlist.songs)
       /\ \A i \in 1..Len(decodedPlaylist.songs) :
            /\ SelfContained(decodedPlaylist.songs[i])
            /\ decodedPlaylist.songs[i].url = hashSource.playlist.songs[i].url
C5_Witness ==
  /\ FromLink
  /\ Len(decodedPlaylist.songs) = 2
  /\ Truthy(hashSource.call.playlist.songs[1].file)
  /\ Truthy(hashSource.call.playlist.songs[2].file)
  /\ hashSource.read = <<TRUE, FALSE>>
  /\ IsDataUrl(decodedPlaylist.songs[1].url)
  /\ IsUndef(decodedPlaylist.songs[2].url)

\* C9: a reload of the producer's page gives the library and the playlist
\* their songs back, in their order and with every field but file and url,
\* and gives back the saved playlists and the profile.
C9_Reload ==
  MountStep /\ page = "open" /\ ~isViewerMode /\ hash = <<>> /\ hash' = <<>> =>
    /\ uploadedSongs' = MapSeq(uploadedSongs, StripFileUrl)
    /\ playlist' = [playlist EXCEPT !.songs = MapSeq(@, StripFileUrl)]
    /\ savedPlaylists' = savedPlaylists
    /\ producerProfile' = producerProfile
\* C9, the rehydration: every reload of the producer's page is as C9_Reload
\* says.
C9_Rehydration == [][C9_Reload]_vars

\* What the reload loses is the duration of a recording that is Infinity.
WithDuration(songs, durations) ==
  [i \in 1..Len(songs) |-> [songs[i] EXCEPT !.duration = durations[i].duration]]
C9_ReloadButDuration ==
  MountStep /\ page = "open" /\ ~isViewerMode /\ hash = <<>> /\ hash' = <<>> =>
    /\ SongIds(uploadedSongs') = SongIds(uploadedSongs)
    /\ WithDuration(uploadedSongs', uploadedSongs) = MapSeq(uploadedSongs, StripFileUrl)
    /\ SongIds(playlist'.songs) = SongIds(playlist.songs)
    /\ [playlist' EXCEPT !.songs = WithDuration(@, playlist.songs)] =
         [playlist EXCEPT !.songs = MapSeq(@, StripFileUrl)]
    /\ \A i \in 1..Len(uploadedSongs) :
         \/ uploadedSongs'[i].duration = uploadedSongs[i].duration
         \/ IsInf(uploadedSongs[i].duration) /\ IsNull(uploadedSongs'[i].duration)
    /\ producerProfile' = producerProfile
C9_RehydrationButDuration == [][C9_ReloadButDuration]_vars

\* C6: when the ShareModal shows a link, it shows the warning exactly when
\* the link is longer than 8000 characters, and the link is there with or
\* without the warning.
C6_SizeWarning ==
  LinkShown => (~IsNull(urlWarning) <=> Len(shareUrl) > 8000)

(***************************************************************************)
(* C4.  Viewer mode is read-only.  While the page is in viewer mode the    *)
(* playlist has the id, the name, the song ids in their order and every    *)
(* song's name and tag metadata of the playlist decoded from the link, and *)
(* each song's comments begin with the decoded ones; and no step taken in  *)
(* viewer mode, other than opening the page again, changes the library,    *)
(* the saved playlists, the profile, the song being edited, the share      *)
(* modal, or starts an upload, an analysis or a link generation.           *)
(***************************************************************************)
BeginsWith(xs, ys) == Len(ys) <= Len(xs) /\ SubSeq(xs, 1, Len(ys)) = ys
C4_AsDecoded ==
  page = "open" /\ isViewerMode =>
    /\ ~IsNull(decodedPlaylist)
    /\ playlist.id = decodedPlaylist.id
    /\ playlist.name = decodedPlaylist.name
    /\ SongIds(playlist.songs) = SongIds(decodedPlaylist.songs)
    /\ \A i \in 1..Len(playlist.songs) :
         /\ SameFields(playlist.songs[i], decodedPlaylist.songs[i],
                       {"name", "url", "duration"} \cup TagFields)
         /\ BeginsWith(CommentsOf(playlist.songs[i]),
                       CommentsOf(decodedPlaylist.songs[i]))
C4_ViewerStep ==
  page = "open" /\ isViewerMode /\ ~fresh' =>
    /\ isViewerMode' /\ page' = "open"
    /\ UNCHANGED <<uploadedSongs, savedPlaylists, producerProfile, editingSongId,
                   editFormData, isShareModalOpen, shareUrl, uploads, analyses,
                   generations, decodedPlaylist>>
\* C4, viewer mode is read-only: the playlist stays as decoded but for
\* appended comments, and no viewer step does what a producer's control does.
C4_ViewerReadOnly == [](C4_AsDecoded) /\ [][C4_ViewerStep]_vars
C4_Witness ==
  /\ page = "open" /\ isViewerMode /\ ~fresh
  /\ playlist # decodedPlaylist
  /\ \E i \in 1..Len(playlist.songs) :
       Len(CommentsOf(playlist.songs[i])) > Len(CommentsOf(decodedPlaylist.songs[i]))

(***************************************************************************)
(* The producer's playlist: its order and its songs.                       *)
(***************************************************************************)
Distinct(ids) == \A i, j \in 1..Len(ids) : ids[i] = ids[j] => i = j
ProducerPage == page = "open" /\ ~isViewerMode /\ ~isLinkExpired
C11_NoDuplicates == ProducerPage => Distinct(SongIds(playlist.songs))
C11_Add ==
  \A k \in 1..Len(uploadedSongs) :
    addSongToPlaylist(k) =>
      /\ playlist'.songs =
           IF \E i \in 1..Len(playlist.songs) : playlist.songs[i].id = uploadedSongs[k].id
           THEN playlist.songs
           ELSE playlist.songs \o <<uploadedSongs[k]>>
      /\ [playlist' EXCEPT !.songs = <<>>] = [playlist EXCEPT !.songs = <<>>]
      /\ uploadedSongs' = uploadedSongs
\* C11: the Add button appends the library song at the end of the playlist
\* when the playlist has no song of that id and changes nothing otherwise,
\* and the producer's playlist never has two songs of one id.
C11_OrderedNoDuplicates == [](C11_NoDuplicates) /\ [][C11_Add]_vars
C11_Witness ==
  /\ ProducerPage
  /\ playlist.name = Str(S_Untitled)
  /\ Len(playlist.songs) = 2
  /\ \A i \in 1..2 : HasId(uploadedSongs, playlist.songs[i].id)
  /\ Distinct(SongIds(playlist.songs))

(***************************************************************************)
(* Reordering: a returning producer's playlist is any list of distinct     *)
(* songs of the library, and reorderSongInPlaylist is called for every     *)
(* song of the library, in the playlist or not, in both directions.        *)
(***************************************************************************)
MaxPlaylist == 3
SongOfFile(f, t) == Spread(MergeSongs(<<>>, <<>>, NewSongs(<<f>>, t)).songMap[1],
                           AnalysisUpdates(Null))
ReorderLibrary ==
  <<SongA, SongB, SongOfFile(FileA, Instants[2]), SongOfFile(FileB, Instants[2])>>
RECURSIVE ListsOf(_, _)
ListsOf(songs, n) ==
  IF n = 0 THEN {<<>>}
  ELSE LET shorter == ListsOf(songs, n - 1)
       IN shorter \cup
          {Append(l, songs[i]) : l \in {x \in shorter : Len(x) = n - 1},
                                i \in 1..Len(songs)}
ReorderStorage(songs) ==
  SaveWorkspace(SaveProfile(EmptyStorage, ProfileDJ, FALSE),
                [InitialPlaylist(T0) EXCEPT !.songs = songs], ReorderLibrary, FALSE)

InitReorder ==
  \E songs \in {l \in ListsOf(ReorderLibrary, MaxPlaylist) : Distinct(SongIds(l))} :
    InitWith(ReorderStorage(songs))

NextReorder ==
  \/ Budget /\ page = "closed" /\ OpenPage(<<>>, Null, now)
  \/ \E k \in 1..Len(ReorderLibrary), d \in {"up", "down"} :
       Budget /\ reorderSongInPlaylist(ReorderLibrary[k].id, d)

SpecReorder == InitReorder /\ [][NextReorder]_vars

\* The place of the song of this id, 0 when the songs have none.
PlaceOf(songs, id) ==
  IF \E i \in 1..Len(songs) : songs[i].id = id
  THEN CHOOSE i \in 1..Len(songs) : songs[i].id = id
  ELSE 0
IsPermutation(new, old) ==
  /\ Len(new) = Len(old)
  /\ \E f \in Permutations(1..Len(old)) : \A k \in 1..Len(old) : new[k] = old[f[k]]
SwappedAt(new, old, i, j) ==
  /\ Len(new) = Len(old)
  /\ new[i] = old[j]
  /\ new[j] = old[i]
  /\ \A k \in 1..Len(old) : k \notin {i, j} => new[k] = old[k]
C12_Step ==
  \A n \in 1..Len(ReorderLibrary), d \in {"up", "down"} :
    reorderSongInPlaylist(ReorderLibrary[n].id, d) =>
      LET old == playlist.songs
          new == playlist'.songs
          i == PlaceOf(old, ReorderLibrary[n].id)
      IN /\ IsPermutation(new, old)
         /\ [playlist' EXCEPT !.songs = <<>>] = [playlist EXCEPT !.songs = <<>>]
         /\ IF i = 0 \/ (d = "up" /\ i = 1) \/ (d = "down" /\ i = Len(old))
            THEN new = old
            ELSE SwappedAt(new, old, i, IF d = "up" THEN i - 1 ELSE i + 1)
C12_UpDown ==
  ProducerPage =>
    \A n \in 1..Len(ReorderLibrary) :
      PlaceOf(playlist.songs, ReorderLibrary[n].id) > 1 =>
        Reordered(Reordered(playlist.songs, ReorderLibrary[n].id, "up"),
                  ReorderLibrary[n].id, "down") = playlist.songs
\* C12: reorderSongInPlaylist swaps the song with its predecessor for 'up'
\* and with its successor for 'down'; for the first song up, the last song
\* down and a song that is not in the playlist it changes nothing; the
\* songs after it are a permutation of the songs before in which only the
\* two swapped places differ; and up followed by down on a song that is not
\* the first gives the order back.
C12_Reordering == [](C12_UpDown) /\ [][C12_Step]_vars
\* The page was opened and reorderSongInPlaylist called since, on a playlist
\* of three songs of which the library's first is now the last.
C12_Witness ==
  /\ ProducerPage
  /\ steps >= 2
  /\ Len(playlist.songs) = 3
  /\ playlist.songs[3].id = ReorderLibrary[1].id

(***************************************************************************)
(* The service worker (ShareModal.tsx 202-293).                            *)
(***************************************************************************)
CACHE_NAME == "producer-playlist-hub-cache-v1"
URLS_TO_CACHE ==
  <<"/", "/index.html", "/index.tsx", "/App.tsx", "/components/FileUpload.tsx",
    "/components/Icons.tsx", "/components/ShareModal.tsx", "/types.ts", "/manifest.json">>

\* A Response: its status, its type, the URL it is of, and where its body is
\* from ("shell" at install, "live" at a later fetch, "old" before this
\* worker).  The other values that stand where a Response may: undefined,
\* a rejection, nothing yet, and no respondWith at all.
Response(status, type, url, body) ==
  [status |-> status, type |-> type, url |-> url, body |-> body]
NoResponse == Response(0, "undefined", "", "")
Rejected == Response(0, "rejected", "", "")
Pending == Response(0, "pending", "", "")
NotHandled == Response(0, "not handled", "", "")
IsResponse(r) == r.type \in {"basic", "cors", "opaque"}

\* CacheStorage: caches.open makes the cache when there is none of the name.
HasCache(cs, name) == \E i \in 1..Len(cs) : cs[i].name = name
CachesOpen(cs, name) ==
  IF HasCache(cs, name) THEN cs ELSE Append(cs, [name |-> name, entries |-> <<>>])
\* cache.put: the entry of a URL is replaced.
CachePut(entries, url, response) ==
  Append(SelectSeq(entries, LAMBDA e : e.url # url), [url |-> url, response |-> response])
CachesPut(cs, name, url, response) ==
  [i \in 1..Len(cs) |->
     IF cs[i].name = name
     THEN [cs[i] EXCEPT !.entries = CachePut(@, url, response)] ELSE cs[i]]
\* cache.match, and caches.match over the caches in the order of creation;
\* undefined when there is no entry.
CacheMatch(entries, url) ==
  IF \E k \in 1..Len(entries) : entries[k].url = url
  THEN entries[CHOOSE k \in 1..Len(entries) : entries[k].url = url].response
  ELSE NoResponse
CachesMatch(cs, url) ==
  LET hits == {i \in 1..Len(cs) : CacheMatch(cs[i].entries, url) # NoResponse}
  IN IF hits = {} THEN NoResponse
     ELSE CacheMatch(cs[CHOOSE i \in hits : \A j \in hits : i <= j].entries, url)
RECURSIVE CacheAddAll(_, _)
CacheAddAll(entries, urls) ==
  IF urls = <<>> THEN entries
  ELSE CacheAddAll(CachePut(entries, Head(urls), Response(200, "basic", Head(urls), "shell")),
                   Tail(urls))

\* The install listener (ShareModal.tsx 217-229).  The catch takes the
\* rejection of caches.open and of cache.addAll, which adds nothing unless
\* every URL was fetched with an ok status; the promise given to waitUntil
\* is fulfilled in each case.
InstallOutcomes == {"cached", "addAll rejected", "open rejected"}
Install(outcome) ==
  /\ swState = "installing"
  /\ outcome \in InstallOutcomes
  /\ caches' =
       IF outcome = "open rejected" THEN caches
       ELSE IF outcome = "addAll rejected" THEN CachesOpen(caches, CACHE_NAME)
       ELSE [i \in 1..Len(CachesOpen(caches, CACHE_NAME)) |->
               IF CachesOpen(caches, CACHE_NAME)[i].name = CACHE_NAME
               THEN [CachesOpen(caches, CACHE_NAME)[i]
                       EXCEPT !.entries = CacheAddAll(@, URLS_TO_CACHE)]
               ELSE CachesOpen(caches, CACHE_NAME)[i]]
  /\ swState' = "installed"
  /\ UNCHANGED <<requests, pageVars, steps>>

\* The activate listener (ShareModal.tsx 279-293).
AllWhitelisted(cacheName) == TRUE
\* cacheWhitelist.indexOf(cacheName) !== -1
Whitelisted(cacheName) == cacheName \in {CACHE_NAME}
Activate ==
  /\ swState = "installed"
  /\ caches' = SelectSeq(caches, LAMBDA c : Whitelisted(c.name))
  /\ swState' = "activated"
  /\ UNCHANGED <<requests, pageVars, steps>>

\* The fetch listener (ShareModal.tsx 231-276).  A request is the event's
\* method, mode and URL, where its handler stands ("fetch", "fallback",
\* "match", "put", "done"), what it answered, what the network and the
\* cache gave it, and whether it called fetch and cache.put.
FetchEvent(method, mode, url) ==
  /\ swState = "activated"
  /\ requests' = Append(requests,
       [method |-> method, mode |-> mode, url |-> url,
        stage |-> IF method # "GET" THEN "done"
                  ELSE IF mode = "navigate" THEN "fetch" ELSE "match",
        answer |-> IF method # "GET" THEN NotHandled ELSE Pending,
        network |-> Pending, hit |-> Pending,
        fetched |-> method = "GET" /\ mode = "navigate",
        put |-> FALSE])
  /\ UNCHANGED <<swState, caches, pageVars, steps>>

\* What the network gives for a URL: a response, or a rejection.
NetworkReplies(url) ==
  {Response(200, "basic", url, "live"), Response(404, "basic", url, "live"),
   Response(0, "opaque", url, "live"), Rejected}

\* fetch(event.request) of a navigation settles (ShareModal.tsx 241-245).
NavigateFetched(i, reply) ==
  /\ i \in 1..Len(requests)
  /\ requests[i].stage = "fetch" /\ requests[i].mode = "navigate"
  /\ reply \in NetworkReplies(requests[i].url)
  /\ requests' = [requests EXCEPT ![i] =
       IF reply = Rejected
       THEN [@ EXCEPT !.network = reply, !.stage = "fallback"]
       ELSE [@ EXCEPT !.network = reply, !.answer = reply, !.stage = "done"]]
  /\ UNCHANGED <<swState, caches, pageVars, steps>>

\* caches.match('/index.html') settles (ShareModal.tsx 244).
NavigateFallback(i) ==
  /\ i \in 1..Len(requests)
  /\ requests[i].stage = "fallback"
  /\ requests' = [requests EXCEPT ![i] =
       [@ EXCEPT !.hit = CachesMatch(caches, "/index.html"),
                 !.answer = CachesMatch(caches, "/index.html"),
                 !.stage = "done"]]
  /\ UNCHANGED <<swState, caches, pageVars, steps>>

\* caches.match(event.request) settles (ShareModal.tsx 252-259).
CacheMatched(i) ==
  /\ i \in 1..Len(requests)
  /\ requests[i].stage = "match"
  /\ requests' = [requests EXCEPT ![i] =
       IF CachesMatch(caches, requests[i].url) # NoResponse
       THEN [@ EXCEPT !.hit = CachesMatch(caches, requests[i].url),
                      !.answer = CachesMatch(caches, requests[i].url),
                      !.stage = "done"]
       ELSE [@ EXCEPT !.hit = NoResponse, !.fetched = TRUE, !.stage = "fetch"]]
  /\ UNCHANGED <<swState, caches, pageVars, steps>>

\* Every response is put into the cache.
AlwaysCacheable(response) == TRUE
\* !(!response || response.status !== 200 || response.type === 'opaque')
Cacheable(response) ==
  IsResponse(response) /\ response.status = 200 /\ response.type # "opaque"

\* fetch(event.request) after a miss settles (ShareModal.tsx 259-273).
Fetched(i, reply) ==
  /\ i \in 1..Len(requests)
  /\ requests[i].stage = "fetch" /\ requests[i].mode # "navigate"
  /\ reply \in NetworkReplies(requests[i].url)
  /\ requests' = [requests EXCEPT ![i] =
       [@ EXCEPT !.network = reply, !.answer = reply,
                 !.stage = IF reply # Rejected /\ Cacheable(reply) THEN "put" ELSE "done"]]
  /\ UNCHANGED <<swState, caches, pageVars, steps>>

\* caches.open(CACHE_NAME) settles and the clone is put (ShareModal.tsx 267-270).
ResponsePut(i) ==
  /\ i \in 1..Len(requests)
  /\ requests[i].stage = "put"
  /\ caches' = CachesPut(CachesOpen(caches, CACHE_NAME), CACHE_NAME,
                         requests[i].url, requests[i].network)
  /\ requests' = [requests EXCEPT ![i] = [@ EXCEPT !.put = TRUE, !.stage = "done"]]
  /\ UNCHANGED <<swState, pageVars, steps>>

\* The caches that the browser holds when the worker is installed: none,
\* those of the version before, and a cache of this worker's name besides.
OldCache ==
  [name |-> "producer-playlist-hub-cache-v0",
   entries |-> <<[url |-> "/index.html",
                  response |-> Response(200, "basic", "/index.html", "old")]>>]
StaleCache ==
  [name |-> CACHE_NAME,
   entries |-> <<[url |-> "/index.html",
                  response |-> Response(200, "basic", "/index.html", "old")]>>]
InitialCaches == {<<>>, <<OldCache>>, <<OldCache, StaleCache>>}

\* The fetch events drawn: a navigation, a script of the app shell, the
\* index page fetched by a script, a script of another origin, a POST.
MaxRequests == 2
FetchEvents ==
  {<<"GET", "navigate", "/">>, <<"GET", "cors", "/App.tsx">>,
   <<"GET", "same-origin", "/index.html">>,
   <<"GET", "no-cors", "https://cdn.tailwindcss.com/">>,
   <<"POST", "cors", "/App.tsx">>}

InitWorker == \E cs \in InitialCaches : InitOf(EmptyStorage, cs)

NextWorker ==
  \/ \E outcome \in InstallOutcomes : Install(outcome)
  \/ Activate
  \/ \E e \in FetchEvents : Len(requests) < MaxRequests /\ FetchEvent(e[1], e[2], e[3])
  \/ \E i \in 1..Len(requests) : \E reply \in NetworkReplies(requests[i].url) :
       NavigateFetched(i, reply)
  \/ \E i \in 1..Len(requests) : NavigateFallback(i)
  \/ \E i \in 1..Len(requests) : CacheMatched(i)
  \/ \E i \in 1..Len(requests) : \E reply \in NetworkReplies(requests[i].url) :
       Fetched(i, reply)
  \/ \E i \in 1..Len(requests) : ResponsePut(i)

SpecWorker == InitWorker /\ [][NextWorker]_vars

Navigations ==
  {i \in 1..Len(requests) : requests[i].method = "GET" /\ requests[i].mode = "navigate"}
Answered(i) == requests[i].stage = "done"
IndexPage(r) == IsResponse(r) /\ r.url = "/index.html" /\ r.status = 200
\* C13: a GET navigation is answered with the network's response when the
\* fetch succeeds, and with a cached index page, never with nothing, when
\* the fetch fails, whatever the install did.
C13_OfflineNavigation ==
  \A i \in Navigations :
    Answered(i) =>
      /\ IsResponse(requests[i].network) => requests[i].answer = requests[i].network
      /\ requests[i].network = Rejected => IndexPage(requests[i].answer)
\* What holds: the answer to a failed navigation is the index page of a
\* cache, or undefined when no cache had one.
C13_OfflineNavigationIfCached ==
  \A i \in Navigations :
    Answered(i) =>
      /\ IsResponse(requests[i].network) => requests[i].answer = requests[i].network
      /\ requests[i].network = Rejected =>
           IndexPage(requests[i].answer) \/ requests[i].answer = NoResponse

InCaches(cs, url, response) ==
  \E c \in 1..Len(cs) : \E k \in 1..Len(cs[c].entries) :
    cs[c].entries[k] = [url |-> url, response |-> response]
C14_Admitted ==
  \A i \in 1..Len(requests) :
    LET r == requests[i]
    IN /\ r.put =>
            /\ r.method = "GET" /\ r.mode # "navigate"
            /\ r.hit = NoResponse
            /\ r.network.status = 200 /\ r.network.type \in {"basic", "cors"}
       /\ r.method # "GET" => r.answer = NotHandled /\ ~r.fetched /\ ~r.put
C14_Step ==
  /\ swState = "activated" /\ caches' # caches =>
       \E i \in 1..Len(requests) :
         /\ ~requests[i].put /\ requests'[i].put
         /\ \A c \in 1..Len(caches) : caches[c].name # CACHE_NAME => caches'[c] = caches[c]
         /\ InCaches(caches', requests[i].url, requests[i].network)
  /\ \A i \in 1..Len(requests) :
       requests[i].stage = "match" /\ requests'[i].stage # "match" =>
         \A response \in {Response(200, "basic", requests[i].url, b) :
                            b \in {"shell", "live", "old"}} :
           InCaches(caches, requests[i].url, response) =>
             /\ IsResponse(requests'[i].answer)
             /\ InCaches(caches, requests[i].url, requests'[i].answer)
             /\ ~requests'[i].fetched /\ requests'[i].stage = "done"
\* C14: the fetch handler puts a response into the cache only for a GET
\* request that is not a navigation, that missed the cache and whose
\* network response has status 200 and is not opaque; a request that is not
\* a GET is neither answered nor fetched nor cached by the worker; and a GET
\* request, not a navigation, that is in the cache is answered from the
\* cache without a fetch.
C14_CacheAdmission == [](C14_Admitted) /\ [][C14_Step]_vars
C14_Witness ==
  /\ Len(requests) = 2
  /\ requests[1].put /\ requests[1].url = "https://cdn.tailwindcss.com/"
  /\ requests[2].url = requests[1].url /\ requests[2].stage = "done"
  /\ requests[2].answer = requests[1].network /\ ~requests[2].fetched

C15_Step ==
  swState = "installed" /\ swState' = "activated" =>
    /\ \A c \in 1..Len(caches') : caches'[c].name = CACHE_NAME
    /\ \A c \in 1..Len(caches) :
         caches[c].name = CACHE_NAME => \E d \in 1..Len(caches') : caches'[d] = caches[c]
C15_Activated ==
  swState = "activated" => \A c \in 1..Len(caches) : caches[c].name = CACHE_NAME
\* C15: when the activate step completes, every cache whose name is not
\* 'producer-playlist-hub-cache-v1' has been deleted, and the cache of that
\* name has not.
C15_CacheCleanup == [](C15_Activated) /\ [][C15_Step]_vars
C15_Witness ==
  /\ swState = "activated"
  /\ caches = <<StaleCache>>
  /\ requests = <<>>

(***************************************************************************)
(* Local storage while the page shows a link.                              *)
(***************************************************************************)
\* C16: while the page's address has a fragment, no step changes an item of
\* local storage: not the mount of the page opened with the fragment, and
\* no step taken on that page afterwards.
C16_StorageUntouched ==
  [][hash' # <<>> => localStorage' = localStorage]_vars
\* What holds: the mount leaves producerPlaylists as it is, and no step
\* taken in viewer mode changes any item.
C16_ViewerStep ==
  /\ hash' # <<>> /\ fresh' =>
       localStorage'.producerPlaylists = localStorage.producerPlaylists
  /\ hash' # <<>> /\ page = "open" /\ isViewerMode /\ ~fresh' =>
       localStorage' = localStorage
C16_StorageUntouchedInViewerMode == [][C16_ViewerStep]_vars

(***************************************************************************)
(* Link generations that overlap.                                          *)
(***************************************************************************)
C17_Current ==
  /\ shareUrl # <<>>
  /\ ~IsNull(linkSource)
  /\ linkSource.call.expiration = expiration
  /\ linkSource.playlist.password =
       IF usePassword /\ password # <<>> THEN Str(password) ELSE Undefined
  /\ linkSource.call.playlist = playlist
  /\ linkSource.call.producerProfile = producerProfile
\* C17: while the modal is open and not processing, no generation is in
\* flight and the link it shows is of the selected expiration, the password
\* setting, the playlist and the profile as they are now.
C17_LinkIsCurrent ==
  page = "open" /\ isShareModalOpen /\ ~isProcessing =>
    generations = <<>> /\ C17_Current
\* What holds: the link shown was made by a call of generateUrl, from the
\* settings and the playlist of that call.
C17_LinkOfSomeCall ==
  page = "open" /\ isShareModalOpen /\ ~isProcessing =>
    /\ shareUrl # <<>>
    /\ ~IsNull(linkSource)
    /\ linkSource.playlist.id = linkSource.call.playlist.id
    /\ linkSource.playlist.expiresAt = linkSource.call.expiresAt

(***************************************************************************)
(* Analyses: their outcome, their flag, and their races.                   *)
(***************************************************************************)
\* The songs of this id before and after a step, in the library and in the
\* playlist; a step that sets neither list's length is meant.
SongsOfId(id) ==
  {<<uploadedSongs[n], uploadedSongs'[n]>> :
     n \in {k \in 1..Len(uploadedSongs) : uploadedSongs[k].id = id}}
  \cup {<<playlist.songs[n], playlist'.songs[n]>> :
          n \in {k \in 1..Len(playlist.songs) : playlist.songs[k].id = id}}
Returned(data, key, default) ==
  IF \E n \in 1..Len(data.o) : data.o[n].k = key /\ Truthy(data.o[n].v)
  THEN (CHOOSE prop \in {data.o[n] : n \in 1..Len(data.o)} : prop.k = key).v
  ELSE default
C18_Step ==
  \A i \in 1..Len(analyses), data \in {Reply, Null} :
    AnalysisDone(i, data) =>
      /\ Len(uploadedSongs') = Len(uploadedSongs)
      /\ Len(playlist'.songs) = Len(playlist.songs)
      /\ \A pair \in SongsOfId(analyses[i].id) :
           LET old == pair[1]
               new == pair[2]
           IN /\ new.analyzing = Bool(FALSE)
              /\ SameFields(new, old, {"id", "name", "duration", "url", "comments"})
              /\ IF data = Null THEN SameFields(new, old, TagFields)
                 ELSE /\ new.bpm = Returned(data, K_bpm, Str(S_NA))
                      /\ new.key = Returned(data, K_key, Str(S_NA))
                      /\ new.genre = Returned(data, K_genre, Str(S_NA))
                      /\ new.mood = Returned(data, K_mood, Str(S_NA))
                      /\ new.instrumentation = Returned(data, K_instrumentation, Arr(<<>>))
                      /\ new.genreTags = Returned(data, K_genreTags, Arr(<<>>))
\* C18: when an analysis call returns, the song of its id is no longer
\* analyzing in the library and in the playlist; after a reply its bpm, key,
\* genre and mood are those returned or 'N/A' and its instrumentation and
\* genreTags those returned or empty; after a failure its tags are as they
\* were; and its id, name, duration, url and comments are as they were.
C18_AnalysisOutcome == [][C18_Step]_vars
\* The recording with no tags has those of the reply.
C18_Witness ==
  /\ ProducerPage
  /\ \E n \in 1..Len(uploadedSongs) :
       /\ uploadedSongs[n].id = SongB.id
       /\ uploadedSongs[n].analyzing = Bool(FALSE)
       /\ uploadedSongs[n].bpm = Get(Reply, K_bpm)
       /\ uploadedSongs[n].genre = Str(S_NA)
       /\ uploadedSongs[n].genreTags = Arr(<<>>)

\* C19: every song of the producer's library that is marked analyzing has
\* an analysis call in flight.
C19_NoStuckAnalysis ==
  ProducerPage =>
    \A n \in 1..Len(uploadedSongs) :
      Truthy(uploadedSongs[n].analyzing) =>
        \E i \in 1..Len(analyses) : analyses[i].id = uploadedSongs[n].id

C20_Step ==
  \A i \in 1..Len(analyses), data \in {Reply, Null} :
    AnalysisDone(i, data) =>
      /\ SongIds(uploadedSongs') = SongIds(uploadedSongs)
      /\ SongIds(playlist'.songs) = SongIds(playlist.songs)
      /\ \A n \in 1..Len(uploadedSongs) :
           uploadedSongs[n].id # analyses[i].id => uploadedSongs'[n] = uploadedSongs[n]
      /\ \A n \in 1..Len(playlist.songs) :
           playlist.songs[n].id # analyses[i].id => playlist'.songs[n] = playlist.songs[n]
C21_ListsInSync ==
  ProducerPage =>
    \A n \in 1..Len(uploadedSongs), k \in 1..Len(playlist.songs) :
      uploadedSongs[n].id = playlist.songs[k].id =>
        SameFields(uploadedSongs[n], playlist.songs[k],
                   {"name", "analyzing", "url", "file"} \cup TagFields)
C21_CurrentInSync ==
  ProducerPage /\ ~IsNull(currentSong) =>
    \A n \in 1..Len(uploadedSongs) :
      uploadedSongs[n].id = currentSong.id =>
        SameFields(uploadedSongs[n], currentSong, {"name"} \cup TagFields)
\* C21: on the producer's page a song that is in the library and in the
\* playlist has the same name, tags, analyzing flag, url and file in both,
\* and the current song has the name and the tags of the library's song of
\* its id.
C21_InSync == C21_ListsInSync /\ C21_CurrentInSync

(***************************************************************************)
(* Deleting from the library and removing from the playlist.               *)
(***************************************************************************)
\* The songs without those of the id, in their order.
Without(songs, id) ==
  LET keep == {n \in 1..Len(songs) : songs[n].id # id}
      RECURSIVE Kept(_)
      Kept(n) == IF n = 0 THEN <<>>
                 ELSE IF n \in keep THEN Append(Kept(n - 1), songs[n]) ELSE Kept(n - 1)
  IN Kept(Len(songs))
IsCurrent(id) == ~IsNull(currentSong) /\ currentSong.id = id
C22_Step ==
  \A k \in 1..Len(uploadedSongs) :
    deleteSongFromLibrary(k) =>
      /\ uploadedSongs' = Without(uploadedSongs, uploadedSongs[k].id)
      /\ playlist'.songs = Without(playlist.songs, uploadedSongs[k].id)
      /\ [playlist' EXCEPT !.songs = <<>>] = [playlist EXCEPT !.songs = <<>>]
      /\ IsCurrent(uploadedSongs[k].id) => IsNull(currentSong') /\ ~isPlaying'
      /\ savedPlaylists' = savedPlaylists
      /\ localStorage'.producerPlaylists = localStorage.producerPlaylists
\* C22: deleteSongFromLibrary takes the song of the id out of the library
\* and out of the playlist and keeps the other songs of both in their
\* order; when the song is the current song there is no current song and
\* nothing is playing afterwards; the saved playlists and their item in
\* local storage are as they were.
C22_DeleteFromLibrary == [][C22_Step]_vars
\* A saved playlist lists a song that the library and the playlist have no
\* more.
C22_Witness ==
  /\ ProducerPage
  /\ Len(uploadedSongs) = 1
  /\ IsNull(currentSong)
  /\ \E p \in 1..Len(savedPlaylists) : \E n \in 1..Len(savedPlaylists[p].songs) :
       /\ ~HasId(uploadedSongs, savedPlaylists[p].songs[n].id)
       /\ ~HasId(playlist.songs, savedPlaylists[p].songs[n].id)
  /\ localStorage.producerPlaylists = ReturningStorage.producerPlaylists

C23_Step ==
  \A k \in 1..Len(playlist.songs) :
    RemoveSong(k) =>
      /\ playlist'.songs = Without(playlist.songs, playlist.songs[k].id)
      /\ [playlist' EXCEPT !.songs = <<>>] = [playlist EXCEPT !.songs = <<>>]
      /\ uploadedSongs' = uploadedSongs
      /\ savedPlaylists' = savedPlaylists
      /\ IF IsCurrent(playlist.songs[k].id)
         THEN IsNull(currentSong') /\ ~isPlaying'
         ELSE currentSong' = currentSong /\ isPlaying' = isPlaying
\* C23: removeSongFromPlaylist takes the song of the id out of the playlist
\* and leaves the library and the saved playlists as they are; when the song
\* is the current song there is no current song and nothing is playing
\* afterwards, and otherwise the current song and the playing flag are as
\* they were.
C23_RemoveFromPlaylist == [][C23_Step]_vars
\* A song of the library is off the stored playlist, and nothing is current.
C23_Witness ==
  /\ ProducerPage
  /\ playlist.name = Str(S_Mix)
  /\ Len(playlist.songs) = 1
  /\ Len(uploadedSongs) = 2
  /\ IsNull(currentSong)
  /\ ~isPlaying

(***************************************************************************)
(* Saved playlists: a returning producer has saved two playlists, one of   *)
(* them with a song that the library has no more, and saves, loads,        *)
(* deletes and starts playlists.                                           *)
(***************************************************************************)
MaxSavedPlaylists == 3
SongGone == SongOfFile(FileA, Instants[2])
PlaylistOld ==
  [InitialPlaylist(Instants[2]) EXCEPT
     !.name = Str(S_DJ), !.songs = <<SongGone, SongA>>, !.producerProfile = EmptyProfile]
SavedStorage ==
  [ReturningStorage EXCEPT !.producerPlaylists =
     StoredPlaylists(<<[PlaylistMix EXCEPT !.producerProfile = ProfileDJ,
                                          !.songs = MapSeq(@, StripForSave)],
                       [PlaylistOld EXCEPT !.songs = MapSeq(@, StripForSave)]>>)]
\* The ids that handleLoadPlaylist is called with: those of playlists that
\* were made at one of the instants, saved or not.
PlaylistIds == {InitialPlaylist(Instants[n]).id : n \in 1..3}

InitSaved == InitWith(SavedStorage)

NextSaved ==
  \/ Budget /\ page = "closed" /\ OpenPage(<<>>, Null, now)
  \/ \E t \in {Instants[2], Instants[3]} : Budget /\ page = "open" /\ Tick(t)
  \/ Len(savedPlaylists) < MaxSavedPlaylists /\ Budget /\ handleSavePlaylist
  \/ \E id \in PlaylistIds : Budget /\ handleLoadPlaylist(id)
  \/ \E k \in 1..MaxSavedPlaylists : Budget /\ handleDeleteSavedPlaylist(k)
  \/ Budget /\ handleNewPlaylist
  \/ \E k \in 1..MaxLibrary : Budget /\ addSongToPlaylist(k)
  \/ \E f \in {"name"}, v \in {S_DJ} : Budget /\ EditProfile(f, v)

SpecSaved == InitSaved /\ [][NextSaved]_vars

PlaylistIdsOf(pls) == [n \in 1..Len(pls) |-> pls[n].id]
C24_Distinct == ProducerPage => Distinct(PlaylistIdsOf(savedPlaylists))
C24_Stored ==
  ProducerPage /\ hash = <<>> =>
    \/ localStorage.producerPlaylists = StoredPlaylists(savedPlaylists)
    \/ IsNull(localStorage.producerPlaylists) /\ savedPlaylists = <<>>
\* The entry that a save makes of the playlist and the profile.
C24_Entry ==
  [playlist EXCEPT
     !.producerProfile = producerProfile,
     !.songs = [n \in 1..Len(playlist.songs) |->
                  [f \in SongFields |->
                     IF f \in {"file", "url", "analyzing"} THEN Undefined
                     ELSE playlist.songs[n][f]]]]
C24_Step ==
  handleSavePlaylist =>
    /\ IF \E n \in 1..Len(savedPlaylists) : savedPlaylists[n].id = playlist.id
       THEN /\ Len(savedPlaylists') = Len(savedPlaylists)
            /\ \A n \in 1..Len(savedPlaylists) :
                 savedPlaylists'[n] = IF savedPlaylists[n].id = playlist.id
                                      THEN C24_Entry ELSE savedPlaylists[n]
       ELSE savedPlaylists' = savedPlaylists \o <<C24_Entry>>
    /\ localStorage'.producerPlaylists = StoredPlaylists(savedPlaylists')
\* C24: handleSavePlaylist replaces in place the saved playlist of the
\* active playlist's id when there is one and appends an entry otherwise,
\* the entry having the profile as it is now and the songs without file,
\* url and analyzing; the saved playlists have distinct ids, and the
\* producerPlaylists item of local storage is their JSON.
C24_SaveIsUpsert == [](C24_Distinct /\ C24_Stored) /\ [][C24_Step]_vars
\* The second saved playlist was replaced by one with a song more, and the
\* first is as it was.
C24_Witness ==
  /\ ProducerPage
  /\ Len(savedPlaylists) = 2
  /\ savedPlaylists[1].id = PlaylistMix.id
  /\ Len(savedPlaylists[1].songs) = 2
  /\ savedPlaylists[2].id = PlaylistOld.id
  /\ Len(savedPlaylists[2].songs) = 3
  /\ localStorage.producerPlaylists = StoredPlaylists(savedPlaylists)

C25_Step ==
  \A id \in PlaylistIds :
    handleLoadPlaylist(id) =>
      /\ uploadedSongs' = uploadedSongs
      /\ savedPlaylists' = savedPlaylists
      /\ IF \E n \in 1..Len(savedPlaylists) : savedPlaylists[n].id = id
         THEN \E n \in 1..Len(savedPlaylists) :
                LET saved == savedPlaylists[n]
                IN /\ saved.id = id
                   /\ [playlist' EXCEPT !.songs = <<>>] = [saved EXCEPT !.songs = <<>>]
                   /\ SongIds(playlist'.songs) = SongIds(saved.songs)
                   /\ \A i \in 1..Len(saved.songs) :
                        IF \E l \in 1..Len(uploadedSongs) :
                             uploadedSongs[l].id = saved.songs[i].id
                        THEN \E l \in 1..Len(uploadedSongs) :
                               /\ uploadedSongs[l].id = saved.songs[i].id
                               /\ playlist'.songs[i] = uploadedSongs[l]
                        ELSE playlist'.songs[i] = saved.songs[i]
                   /\ producerProfile' = IF Truthy(saved.producerProfile)
                                         THEN saved.producerProfile ELSE producerProfile
         ELSE UNCHANGED <<playlist, producerProfile, currentSong, isPlaying, localStorage>>
\* C25: handleLoadPlaylist with the id of a saved playlist makes it the
\* active playlist, with its song ids in their order, each song being the
\* library's song of that id when there is one and the saved copy
\* otherwise, and makes its profile the producer profile when it has one;
\* the library and the saved playlists are as they were; with an id that no
\* saved playlist has, nothing changes.
C25_LoadPlaylist == [][C25_Step]_vars
\* The playlist loaded has a saved copy of the song that the library lacks
\* and the library's song, which has an analyzing flag, for the other.
C25_Witness ==
  /\ ProducerPage
  /\ playlist.id = PlaylistOld.id
  /\ Len(playlist.songs) = 2
  /\ ~HasId(uploadedSongs, playlist.songs[1].id)
  /\ playlist.songs[1] = StripForSave(SongGone)
  /\ playlist.songs[2] = uploadedSongs[1]
  /\ playlist.songs[2] # savedPlaylists[2].songs[2]
  /\ producerProfile = savedPlaylists[2].producerProfile
  /\ producerProfile # ProfileDJ

\* What handleSongsUploaded(newSongs) makes of the library given, when the
\* upload i is done.
C26_Merged(library, i) ==
  LET newSongs == NewSongs(uploads[i].files, now)
      newIds == {newSongs[k].id : k \in 1..Len(newSongs)}
      added == SelectSeq(SongIds(newSongs), LAMBDA id : ~HasId(library, id))
      Needed(id) == ~HasId(library, id) \/ ~Truthy(Find(library, id).bpm)
      Started(id) == {k \in (Len(analyses) + 1)..Len(analyses') : analyses'[k].id = id}
  IN /\ Len(uploadedSongs') >= Len(library)
     /\ \A n \in 1..Len(library) :
          library[n].id \notin newIds => uploadedSongs'[n] = library[n]
     /\ SongIds(uploadedSongs') = SongIds(library) \o added
     /\ \A k \in 1..Len(newSongs) : \A n \in 1..Len(uploadedSongs') :
          uploadedSongs'[n].id = newSongs[k].id =>
            /\ SameFields(uploadedSongs'[n], newSongs[k], DOMAIN newSongs[k])
            /\ HasId(library, newSongs[k].id) =>
                 SameFields(uploadedSongs'[n], Find(library, newSongs[k].id),
                            SongFields \ (DOMAIN newSongs[k] \cup {"analyzing"}))
            /\ uploadedSongs'[n].analyzing = Bool(Needed(newSongs[k].id))
            /\ Cardinality(Started(newSongs[k].id))
                 = IF Needed(newSongs[k].id) THEN 1 ELSE 0
     /\ \A k \in 1..Len(playlist.songs) :
          playlist.songs[k].id \in newIds =>
            playlist'.songs[k] = Find(uploadedSongs', playlist.songs[k].id)
\* The merge into the library of the render in which the files were chosen.
C26_UploadMergeOfRender ==
  [][\A i \in 1..Len(uploads) :
       UploadDone(i) => C26_Merged(uploads[i].uploadedSongs, i)]_vars
\* C26: handleSongsUploaded leaves every library song whose id is not among
\* the new songs as it was and where it was, adds each new id at the end in
\* upload order, overwrites an entry of the same id by the uploaded fields
\* and keeps its other fields, replaces the playlist's entries of the same
\* id by the merged song, and marks a song as analyzing and starts exactly
\* one analysis of it if and only if the library had no entry of that id or
\* that entry had no bpm.
C26_UploadMerge ==
  [][\A i \in 1..Len(uploads) : UploadDone(i) => C26_Merged(uploadedSongs, i)]_vars

(***************************************************************************)
(* Playing: a producer uploads three recordings at once, puts them on the  *)
(* playlist, starts a new playlist, plays songs of the library and of the  *)
(* playlist, and songs end.  A song that plays ends after its duration.    *)
(***************************************************************************)
InitPlay == InitWith(EmptyStorage)

SongEnds == \E b \in BOOLEAN : NoBudget /\ handleSongEnd(b)
NextPlay ==
  \/ NoBudget /\ page = "closed" /\ OpenPage(<<>>, Null, now)
  \/ NoBudget /\ uploads = <<>> /\ uploadedSongs = <<>>
       /\ UploadStart(<<FileA, FileB, FileC>>)
  \/ \E i \in 1..MaxUploads : NoBudget /\ UploadDone(i)
  \/ \E k \in 1..MaxPlaylist : NoBudget /\ addSongToPlaylist(k)
  \/ NoBudget /\ playlist.songs # <<>> /\ handleNewPlaylist
  \/ \E song \in PlayButtons : NoBudget /\ handlePlayPause(song)
  \/ SongEnds

SpecPlay == InitPlay /\ [][NextPlay]_vars /\ WF_vars(SongEnds)

C27_Step ==
  \A b \in BOOLEAN :
    handleSongEnd(b) =>
      LET songs == playlist.songs
      IN /\ playlist' = playlist
         /\ IF \E k \in 1..(Len(songs) - 1) : songs[k].id = currentSong.id
            THEN \E k \in 1..(Len(songs) - 1) :
                   songs[k].id = currentSong.id /\ currentSong' = songs[k + 1]
            ELSE currentSong' = currentSong /\ ~isPlaying'
         /\ Len(songs) > 1 /\ currentSong.id = songs[Len(songs)].id
              => currentSong' # songs[1]
C27_Advance == [][C27_Step]_vars
\* When no more is done on the page than letting songs end, the player
\* stops for good.
C27_Stops == <>[][SongEnds]_vars => <>[](~isPlaying)
\* C27: when the current song ends at a position of the active playlist
\* that is not the last, the next song of the playlist becomes the current
\* song; when it ends at the last position or is not in the playlist, the
\* current song is kept and playing becomes false; the first song never
\* follows the last, and a playlist left to play without user input
\* eventually stops.
C27_AutoAdvance == C27_Advance /\ C27_Stops
\* The second of three songs of the playlist has ended and the third plays.
C27_Witness ==
  /\ ProducerPage
  /\ Len(playlist.songs) = 3
  /\ ~IsNull(currentSong)
  /\ currentSong = playlist.songs[3]
  /\ isPlaying

(***************************************************************************)
(* Feedback: a viewer opens a shared playlist, comments on its songs and   *)
(* opens the export of the feedback.                                       *)
(***************************************************************************)
MaxFeedback == 2
ViewerLinks ==
  {MakeLink(Generation(e, PlaylistMix, FALSE, <<>>, pr, T0), <<TRUE, TRUE>>) :
     e \in {"never"}, pr \in {ProfileDJ, EmptyProfile}}
InitViewer == InitWith(EmptyStorage)

NextViewer ==
  \/ \E a \in ViewerLinks : NoBudget /\ page = "closed" /\ OpenPage(a.h, a.src, now)
  \/ \E k \in 1..Len(playlist.songs), c \in {S_ok, S_no, <<CodeOf(" ")>>, <<>>} :
       /\ Len(CommentsOf(playlist.songs[k])) < MaxFeedback
       /\ NoBudget
       /\ handleAddComment(k, c)
  \/ NoBudget /\ OpenFeedbackModal
  \/ NoBudget /\ CloseFeedbackModal

SpecViewer == InitViewer /\ [][NextViewer]_vars

C28_Step ==
  \A k \in 1..Len(playlist.songs), c \in {S_ok, S_no, <<CodeOf(" ")>>, <<>>} :
    handleAddComment(k, c) =>
      IF \A i \in 1..Len(c) : c[i] = CodeOf(" ")
      THEN playlist' = playlist
      ELSE /\ [playlist' EXCEPT !.songs = <<>>] = [playlist EXCEPT !.songs = <<>>]
           /\ Len(playlist'.songs) = Len(playlist.songs)
           /\ \A i \in 1..Len(playlist.songs) :
                IF i = k
                THEN /\ [playlist'.songs[i] EXCEPT !.comments = Undefined]
                          = [playlist.songs[i] EXCEPT !.comments = Undefined]
                     /\ LET before == CommentsOf(playlist.songs[i])
                            after == playlist'.songs[i].comments.a
                        IN /\ Len(after) = Len(before) + 1
                           /\ SubSeq(after, 1, Len(before)) = before
                           /\ after[Len(after)] = Comment(c)
                ELSE playlist'.songs[i] = playlist.songs[i]
\* The lines of a text: String.prototype.split('\n').
RECURSIVE Lines(_)
Lines(text) ==
  IF \A i \in 1..Len(text) : text[i] # LF THEN <<text>>
  ELSE LET n == CHOOSE i \in 1..Len(text) :
                  text[i] = LF /\ \A j \in 1..(i - 1) : text[j] # LF
       IN <<SubSeq(text, 1, n - 1)>> \o Lines(SubSeq(text, n + 1, Len(text)))
\* The songs of the playlist that have a comment, in playlist order, each
\* with its comments in order and an empty line.
RECURSIVE C28_Listed(_)
C28_Listed(songs) ==
  IF songs = <<>> THEN <<>>
  ELSE (IF Len(CommentsOf(Head(songs))) >= 1
        THEN <<S_Track \o Head(songs).name.s>>
               \o [n \in 1..Len(CommentsOf(Head(songs))) |->
                     S_Dash \o Get(CommentsOf(Head(songs))[n], K_text).s]
               \o << <<>> >>
        ELSE <<>>)
       \o C28_Listed(Tail(songs))
C28_Export ==
  page = "open" /\ isFeedbackModalOpen =>
    LET lines == Lines(generateFeedbackText(playlist))
        tracks == SelectSeq(lines, LAMBDA l : StartsWith(l, 1, S_Track))
        commented == SelectSeq(playlist.songs, LAMBDA song : Len(CommentsOf(song)) >= 1)
        IsHead(n) == n <= Len(lines) /\ lines[n] = <<>>
                       /\ SubSeq(lines, n + 1, Len(lines))
                            = C28_Listed(playlist.songs) \o << <<>> >>
    IN /\ tracks = [n \in 1..Len(commented) |-> S_Track \o commented[n].name.s]
       /\ IsHead(2) \/ IsHead(3)
\* C28: handleAddComment with a text that is empty or only spaces changes
\* nothing; with another text it appends one comment of exactly that text to
\* the comments of the playlist song of that id, keeps the earlier comments
\* in their order and leaves every other song as it was.  The exported
\* feedback text lists, in playlist order, exactly the songs that have a
\* comment, each followed by all its comments in order.
C28_ViewerComments == [][C28_Step]_vars /\ []C28_Export
\* The export is open on a playlist whose first song has no comment and
\* whose second song has two.
C28_Witness ==
  /\ page = "open"
  /\ isViewerMode
  /\ isFeedbackModalOpen
  /\ Len(playlist.songs) = 2
  /\ CommentsOf(playlist.songs[1]) = <<>>
  /\ CommentsOf(playlist.songs[2]) = <<Comment(S_no), Comment(S_ok)>>

=============================================================================
